---- MODULE Spec2Model ----
(***************************************************************************)
(* Technology-radar ingestion pipeline of the knowledge-graph repository: *)
(* the processor (pure mapping), the entity repositories and the ingestor *)
(* acting on a property-graph store, the Methodology delete route, and    *)
(* the orchestrator that sequences scrape -> process -> ingest.           *)
(*                                                                         *)
(* Strings are TLA+ strings; Python's str operations (lower, replace,     *)
(* slicing, "in", endswith, title) are computed character by character.   *)
(* None is the distinguished string None.                                  *)
(***************************************************************************)
EXTENDS Integers, Sequences, FiniteSets, TLC

VARIABLES
    nodes,            \* the store's nodes: node id -> properties
    rels,             \* the store's relationships: [type, from, to, copy]
    last,             \* what the most recent repository / ingestor / API call did and returned
    pc,               \* position of the orchestrator (or of the processor run)
    technique_paths,  \* run_full_pipeline: the list of paths of the run
    idx,              \* run_full_pipeline: 1-based position of the item being handled
    technique,        \* the technique scraped for the current item (None when absent)
    processed_data,   \* the processor's output for the current item
    ingest_results,   \* the counters and errors of the current item's ingest_processed_data
    results,          \* the summary under construction / returned
    fetched,          \* history: the paths fetched by scrape_technique in this run
    log,              \* history: the events of this run (sleep, close, warnings)
    calls,            \* history: the component calls of this run, [stage, path]
    index_page,       \* the index page served to scrape_techniques_list
    outages           \* the store failures of this run so far

vars == <<nodes, rels, last, pc, technique_paths, idx, technique,
          processed_data, ingest_results, results, fetched, log, calls,
          index_page, outages>>

runVars == <<pc, technique_paths, idx, technique, processed_data,
             ingest_results, results, fetched, log, calls, index_page,
             outages>>

None == "<None>"

-----------------------------------------------------------------------------
(* Python string operations *)

Min(a, b) == IF a < b THEN a ELSE b

UpperAlpha == "ABCDEFGHIJKLMNOPQRSTUVWXYZ"
LowerAlpha == "abcdefghijklmnopqrstuvwxyz"

CharAt(s, i) == SubSeq(s, i, i)

IsUpper(c) == \E k \in 1..26 : CharAt(UpperAlpha, k) = c
IsLower(c) == \E k \in 1..26 : CharAt(LowerAlpha, k) = c
IsAlpha(c) == IsUpper(c) \/ IsLower(c)

LowerChar(c) ==
    IF IsUpper(c)
    THEN CharAt(LowerAlpha, CHOOSE k \in 1..26 : CharAt(UpperAlpha, k) = c)
    ELSE c

UpperChar(c) ==
    IF IsLower(c)
    THEN CharAt(UpperAlpha, CHOOSE k \in 1..26 : CharAt(LowerAlpha, k) = c)
    ELSE c

\* str.lower()
RECURSIVE Lower(_)
Lower(s) ==
    IF Len(s) = 0 THEN ""
    ELSE IF Len(s) = 1 THEN LowerChar(s)
    ELSE LET h == Len(s) \div 2
         IN  Lower(SubSeq(s, 1, h)) \o Lower(SubSeq(s, h + 1, Len(s)))

\* str.replace(a, b) for one-character a and b
RECURSIVE Replace(_, _, _)
Replace(s, a, b) ==
    IF Len(s) = 0 THEN ""
    ELSE IF Len(s) = 1 THEN (IF s = a THEN b ELSE s)
    ELSE LET h == Len(s) \div 2
         IN  Replace(SubSeq(s, 1, h), a, b) \o Replace(SubSeq(s, h + 1, Len(s)), a, b)

\* sub in s
Contains(sub, s) ==
    \E i \in 1..(Len(s) - Len(sub) + 1) : SubSeq(s, i, i + Len(sub) - 1) = sub

\* s[:n]
Prefix(s, n) == SubSeq(s, 1, Min(n, Len(s)))

\* s.endswith(suffix)
EndsWith(s, suffix) ==
    /\ Len(s) >= Len(suffix)
    /\ SubSeq(s, Len(s) - Len(suffix) + 1, Len(s)) = suffix

\* str.title(): a letter is upper-cased after a non-letter, lower-cased after a letter
RECURSIVE TitleRange(_, _, _)
TitleRange(s, a, b) ==
    IF a > b THEN ""
    ELSE IF a = b
    THEN LET c == CharAt(s, a)
             afterLetter == a > 1 /\ IsAlpha(CharAt(s, a - 1))
         IN  IF afterLetter THEN LowerChar(c) ELSE UpperChar(c)
    ELSE LET h == (a + b) \div 2
         IN  TitleRange(s, a, h) \o TitleRange(s, h + 1, b)

Title(s) == TitleRange(s, 1, Len(s))

\* a string of n copies of the character c
RECURSIVE Repeat(_, _)
Repeat(c, n) ==
    IF n <= 0 THEN ""
    ELSE IF n = 1 THEN c
    ELSE Repeat(c, n \div 2) \o Repeat(c, n - (n \div 2))

-----------------------------------------------------------------------------
(* Field constraints of the pydantic models *)

YearMin == 1900           \* year_created: ge=1900
YearMax == 2030           \* year_created: le=2030
CredibilityMin == 0       \* credibility_score: ge=0.0, in tenths
CredibilityMax == 100     \* credibility_score: le=10.0, in tenths
NameMaxLen == 200          \* Field(..., min_length=1, max_length=200)
DescriptionMaxLen == 1000  \* Field(None, max_length=1000)
DetailMaxLen == 2000       \* Field(..., min_length=1, max_length=2000)
RadarDescriptionMinLen == 10

LenBetween(s, lo, hi) == Len(s) >= lo /\ Len(s) <= hi

\* RadarItem / RadarTechnique
RadarTechniqueValid(t) ==
    /\ LenBetween(t.name, 1, NameMaxLen)
    /\ Len(t.description) >= RadarDescriptionMinLen
    /\ t.ring \in {"Adopt", "Trial", "Assess", "Hold"}

\* an optional field left out of the constructor call is None
Given(fields, f) == f \in DOMAIN fields

\* a range whose ends are rejected
InRange_exclusive(v, lo, hi) == v > lo /\ v < hi

\* Field(ge=lo, le=hi)
InRange(v, lo, hi) == v >= lo /\ v <= hi

\* MethodologyCreate
MethodologyCreateValid(m) ==
    /\ LenBetween(m.name, 1, NameMaxLen)
    /\ Given(m, "description") => Len(m.description) <= DescriptionMaxLen
    /\ Given(m, "year_created") => InRange(m.year_created, YearMin, YearMax)

\* PracticeCreate
PracticeCreateValid(p) ==
    /\ LenBetween(p.name, 1, NameMaxLen)
    /\ Len(p.description) <= DescriptionMaxLen

\* RuleCreate
RuleCreateValid(r) ==
    /\ LenBetween(r.name, 1, NameMaxLen)
    /\ LenBetween(r.title, 1, NameMaxLen)
    /\ LenBetween(r.detail, 1, DetailMaxLen)

\* EvidenceCreate
EvidenceCreateValid(e) ==
    /\ LenBetween(e.name, 1, NameMaxLen)
    /\ LenBetween(e.title, 1, NameMaxLen)
    /\ Given(e, "summary") => Len(e.summary) <= DescriptionMaxLen
    /\ Given(e, "credibility_score")
         => InRange(e.credibility_score, CredibilityMin, CredibilityMax)

\* what a constructor call gives: the model, or ValidationError
ValidationError == [raised |-> TRUE]

Constructed(model) == [raised |-> FALSE, model |-> model]

\* the fields of a model, a field that was not given taking its default
WithDefault(fields, f, default) ==
    IF Given(fields, f) THEN fields
    ELSE [g \in DOMAIN fields \cup {f} |-> IF g = f THEN default ELSE fields[g]]

\* MethodologyCreate(**fields)
MethodologyCreate(fields) ==
    IF MethodologyCreateValid(fields) THEN Constructed(fields) ELSE ValidationError

\* EvidenceCreate(**fields)
EvidenceCreate(fields) ==
    IF EvidenceCreateValid(fields) THEN Constructed(fields) ELSE ValidationError

\* a RuleCreate whose priority defaults to None
RuleCreate_no_default(fields) ==
    IF RuleCreateValid(fields)
    THEN Constructed(WithDefault(fields, "priority", None))
    ELSE ValidationError

\* RuleCreate(**fields): priority: Optional[str] = Field("medium")
RuleCreate(fields) ==
    IF RuleCreateValid(fields)
    THEN Constructed(WithDefault(fields, "priority", "medium"))
    ELSE ValidationError

-----------------------------------------------------------------------------
(* RadarDataProcessor *)

\* credibility scores are kept in tenths: 8.5 is 85
CredibilityThoughtWorks == 85

TruncateAt == 500   \* technique.description[:500]
DetailSlice == 300  \* technique.description[:300]

_map_ring_to_difficulty(ring) ==
    CASE ring = "Adopt"  -> "Beginner"
      [] ring = "Trial"  -> "Intermediate"
      [] ring = "Assess" -> "Advanced"
      [] ring = "Hold"   -> "Advanced"
      [] OTHER           -> "Intermediate"

\* Hold as the least urgent ring
_map_ring_to_priority_hold_lowest(ring) ==
    CASE ring = "Adopt"  -> "high"
      [] ring = "Trial"  -> "medium"
      [] ring = "Assess" -> "low"
      [] OTHER           -> "low"

_map_ring_to_priority(ring) ==
    CASE ring = "Adopt"  -> "high"
      [] ring = "Trial"  -> "medium"
      [] ring = "Assess" -> "low"
      [] ring = "Hold"   -> "critical"
      [] OTHER           -> "medium"

_estimate_implementation_time(t) ==
    CASE t.ring = "Adopt"  -> "1-2 weeks setup, ongoing practice"
      [] t.ring = "Trial"  -> "2-4 weeks evaluation, 1-2 months implementation"
      [] t.ring = "Assess" -> "1-2 weeks research, proof of concept"
      [] OTHER             -> "Avoid new implementation"

KeywordsA == {"agile", "devops", "continuous", "automation", "testing"}
KeywordsB == {"security", "quality", "testing", "review"}

\* the first branch of _map_technique_to_entities (testing practice under DevOps)
RuleAFires(t) ==
    LET technique_lower == Lower(t.name)
        description_lower == Lower(t.description)
    IN  /\ \E keyword \in KeywordsA :
              Contains(keyword, technique_lower) \/ Contains(keyword, description_lower)
        /\ Contains("testing", technique_lower) \/ Contains("testing", description_lower)
        /\ t.ring \in {"Adopt", "Trial"}

\* the Quality Assurance keywords looked for in the description as well
RuleBFires_description(t) ==
    \E keyword \in KeywordsB :
        Contains(keyword, Lower(t.name)) \/ Contains(keyword, Lower(t.description))

\* the second branch of _map_technique_to_entities (Quality Assurance)
RuleBFires(t) ==
    \E keyword \in KeywordsB : Contains(keyword, Lower(t.name))

\* Every pattern of _extract_tools_from_description needs one of these words in
\* the description; without them re.findall matches nothing and the result is [].
ToolTriggers == {"tool", "platform", "framework", "library", "using"}

NoToolTrigger(description) ==
    \A w \in ToolTriggers : ~Contains(w, description)

\* defined on the descriptions without a trigger word (those of this model)
_extract_tools_from_description(description) ==
    CASE NoToolTrigger(description) -> <<>>

PracticeA(t) ==
    [name |-> t.name \o " Practice",
     description |-> "Implementation of " \o t.name
                       \o " as described in ThoughtWorks Technology Radar",
     methodology_name |-> "DevOps",
     tools |-> <<>>,
     difficulty_level |-> _map_ring_to_difficulty(t.ring),
     estimated_time |-> _estimate_implementation_time(t)]

\* year_created is None
qa_methodology ==
    [name |-> "Quality Assurance",
     description |-> "Systematic approach to ensuring software quality and security",
     origin |-> "Software Engineering Best Practices",
     category |-> "Quality"]

PracticeB(t) ==
    [name |-> t.name,
     description |-> IF Len(t.description) > TruncateAt
                     THEN Prefix(t.description, TruncateAt) \o "..."
                     ELSE t.description,
     methodology_name |-> "Quality Assurance",
     tools |-> _extract_tools_from_description(t.description),
     difficulty_level |-> _map_ring_to_difficulty(t.ring),
     estimated_time |-> _estimate_implementation_time(t)]

\* returns [raised, methodologies, practices]
_map_technique_to_entities(t) ==
    LET a == IF RuleAFires(t) THEN <<PracticeA(t)>> ELSE <<>>
        b == IF RuleBFires(t) THEN <<PracticeB(t)>> ELSE <<>>
        m == IF RuleBFires(t) THEN <<qa_methodology>> ELSE <<>>
        practices == a \o b
    IN  [raised |-> \/ \E k \in 1..Len(practices) : ~PracticeCreateValid(practices[k])
                    \/ \E k \in 1..Len(m) : ~MethodologyCreateValid(m[k]),
         methodologies |-> m,
         practices |-> practices]

Slug(name) == "thoughtworks-" \o Replace(Lower(name), " ", "-")

\* returns [raised, rules]
_generate_rules_from_technique(t) ==
    LET rule_priority == _map_ring_to_priority(t.ring)
        rule_title ==
            CASE t.ring = "Adopt"  -> "Adopt " \o t.name
              [] t.ring = "Trial"  -> "Trial " \o t.name
              [] t.ring = "Assess" -> "Assess " \o t.name
              [] OTHER             -> "Use " \o t.name \o " with Caution"
        raw_detail ==
            CASE t.ring = "Adopt" ->
                   "We feel strongly that the industry should be adopting " \o t.name
                     \o ". " \o Prefix(t.description, DetailSlice)
              [] t.ring = "Trial" ->
                   "Worth pursuing " \o t.name
                     \o ". It is important to understand how to build up this capability. "
                     \o Prefix(t.description, DetailSlice)
              [] t.ring = "Assess" ->
                   "Promising technique worth exploring: " \o t.name
                     \o ". " \o Prefix(t.description, DetailSlice)
              [] OTHER ->
                   "Proceed with caution when using " \o t.name
                     \o ". " \o Prefix(t.description, DetailSlice)
        rule_detail ==
            IF EndsWith(raw_detail, "...")
            THEN SubSeq(raw_detail, 1, Len(raw_detail) - 3) \o "."
            ELSE raw_detail
        rule == [name |-> Slug(t.name),
                 title |-> rule_title,
                 detail |-> rule_detail,
                 practice_name |-> t.name \o " Practice",
                 priority |-> rule_priority,
                 category |-> "thoughtworks-radar",
                 tags |-> <<"thoughtworks", "technology-radar", Lower(t.quadrant)>>]
    IN  [raised |-> ~RuleCreateValid(rule), rules |-> <<rule>>]

\* evidence records are plain dictionaries: nothing is validated here
_generate_evidence_from_technique(t) ==
    IF t.source_url # None
    THEN << [name |-> Slug(t.name),
             title |-> "ThoughtWorks Technology Radar: " \o t.name,
             url |-> t.source_url,
             summary |-> "ThoughtWorks Technology Radar assessment of " \o t.name
                           \o " - " \o t.ring,
             source_type |-> "technology-radar",
             credibility_score |-> CredibilityThoughtWorks] >>
    ELSE <<>>

_generate_connections(t, rules) ==
    [k \in 1..Len(rules) |->
        [type |-> "SUPPORTED_BY",
         from_type |-> "Rule",
         from_name |-> rules[k].name,
         to_type |-> "Evidence",
         to_name |-> Slug(t.name)]]

EmptyBatch ==
    [raised |-> TRUE, methodologies |-> <<>>, practices |-> <<>>, rules |-> <<>>,
     evidence |-> <<>>, connections |-> <<>>]

\* a pydantic ValidationError in a constructor leaves process_radar_technique by exception
process_radar_technique(t) ==
    LET ents == _map_technique_to_entities(t)
        gen == _generate_rules_from_technique(t)
    IN  IF ents.raised \/ gen.raised
        THEN EmptyBatch
        ELSE [raised |-> FALSE,
              methodologies |-> ents.methodologies,
              practices |-> ents.practices,
              rules |-> gen.rules,
              evidence |-> _generate_evidence_from_technique(t),
              connections |-> _generate_connections(t, gen.rules)]

-----------------------------------------------------------------------------
(* The property-graph store.  A node is identified by <<label, name, copy>>:  *)
(* the store allows several nodes with one label and name, copy tells them    *)
(* apart.  nodes maps each node to its properties; rels is the set of         *)
(* relationships [type, from, to, copy].                                      *)

EmptyStore == [nodes |-> <<>>, rels |-> {}]

Max(set) == CHOOSE x \in set : \A y \in set : y <= x

\* MATCH (n:label {name: $name})
MatchNodes(S, label, name) ==
    {id \in DOMAIN S.nodes : id[1] = label /\ id[2] = name}

NodesOfLabel(S, label) == {id \in DOMAIN S.nodes : id[1] = label}

\* the relationships of one type between two given nodes
RelsBetween(S, type, from, to) ==
    {r \in S.rels : r.type = type /\ r.from = from /\ r.to = to}

\* CREATE of one node with the given label and properties
CreateNode(S, label, props) ==
    LET copy == Max({id[3] : id \in MatchNodes(S, label, props.name)} \cup {0}) + 1
        new == <<label, props.name, copy>>
    IN  [S EXCEPT !.nodes = [id \in DOMAIN S.nodes \cup {new} |->
                               IF id = new THEN props ELSE S.nodes[id]]]

\* CREATE of one relationship for every pair of the set (pairs are distinct)
CreateRels(S, type, pairs) ==
    [S EXCEPT !.rels = @ \cup
        {[type |-> type, from |-> pr[1], to |-> pr[2],
          copy |-> Cardinality(RelsBetween(S, type, pr[1], pr[2])) + 1] : pr \in pairs}]

\* Neo4jConnection.execute_write_query / execute_read_query: one session and one
\* transaction per query; a failure of the driver or of the store raises.
\* The queries themselves are the operators below.

\* The parameters of a create query are model_dump(exclude_none=True): a field
\* that is None is not sent (the records of this model leave it out), and the
\* server rejects a query that names a parameter it was not sent.
MissingParameter(params, names) == \E n \in names : n \notin DOMAIN params

\* MethodologyRepository.create: CREATE (m:Methodology {name: $name, description:
\* $description, origin: $origin, year_created: $year_created, category:
\* $category}) RETURN m
MethodologyRepository_create(S, m) ==
    IF MissingParameter(m, {"name", "description", "origin", "year_created", "category"})
    THEN [S |-> S, raised |-> TRUE]
    ELSE [S |-> CreateNode(S, "Methodology", m), raised |-> FALSE]

\* MethodologyRepository.get_by_name: the first matching node, or None
MethodologyRepository_get_by_name(S, name) ==
    MatchNodes(S, "Methodology", name) # {}

\* a delete that reports a deletion whatever it matched
MethodologyRepository_delete_always_true(S, name) ==
    LET ms == MatchNodes(S, "Methodology", name)
    IN  [S |-> [nodes |-> [id \in DOMAIN S.nodes \ ms |-> S.nodes[id]],
                rels |-> {r \in S.rels : r.from \notin ms /\ r.to \notin ms}],
         deleted |-> TRUE]

\* MethodologyRepository.delete: MATCH (m:Methodology {name}) DETACH DELETE m
\* RETURN count(m); returns deleted_count > 0
MethodologyRepository_delete(S, name) ==
    LET ms == MatchNodes(S, "Methodology", name)
    IN  [S |-> [nodes |-> [id \in DOMAIN S.nodes \ ms |-> S.nodes[id]],
                rels |-> {r \in S.rels : r.from \notin ms /\ r.to \notin ms}],
         deleted |-> Cardinality(ms) > 0]

\* MATCH (parent) CREATE (child) CREATE (parent)-[:relType]->(child): one child and
\* one relationship per parent row matched; no row, no write.  The parents share
\* label and name, the children are numbered in the order of the parents' copies.
CreateUnder(S, parents, label, props, relType) ==
    LET base == Max({id[3] : id \in MatchNodes(S, label, props.name)} \cup {0})
        rank(p) == Cardinality({q \in parents : q[3] <= p[3]})
        child(p) == <<label, props.name, base + rank(p)>>
        children == {child(p) : p \in parents}
    IN  [nodes |-> [id \in DOMAIN S.nodes \cup children |->
                      IF id \in children THEN props ELSE S.nodes[id]],
         rels |-> S.rels \cup
                    {[type |-> relType, from |-> p, to |-> child(p), copy |-> 1] :
                        p \in parents}]

\* a create that writes the Practice node even when no Methodology matched
PracticeRepository_create_orphan(S, p) ==
    LET parents == MatchNodes(S, "Methodology", p.methodology_name)
    IN  [S |-> IF parents = {} THEN CreateNode(S, "Practice", p)
               ELSE CreateUnder(S, parents, "Practice", p, "HAS_PRACTICE"),
         raised |-> FALSE]

\* PracticeRepository.create: MATCH (m:Methodology {name: $methodology_name})
\* CREATE (p:Practice {...}) CREATE (m)-[:HAS_PRACTICE]->(p) RETURN p;
\* an empty result raises RuntimeError("Failed to create practice")
PracticeRepository_create(S, p) ==
    LET parents == MatchNodes(S, "Methodology", p.methodology_name)
    IN  IF MissingParameter(p, {"methodology_name", "name", "description", "tools",
                                "difficulty_level", "estimated_time"})
        THEN [S |-> S, raised |-> TRUE]
        ELSE [S |-> CreateUnder(S, parents, "Practice", p, "HAS_PRACTICE"),
              raised |-> parents = {}]

\* an existence check that never finds the Practice
PracticeRepository_get_by_name_never(S, name) == FALSE

\* PracticeRepository.get_by_name
PracticeRepository_get_by_name(S, name) ==
    MatchNodes(S, "Practice", name) # {}

\* RuleRepository.create: MATCH (p:Practice {name: $practice_name})
\* CREATE (r:Rule {...}) CREATE (p)-[:HAS_RULE]->(r) RETURN r;
\* an empty result raises RuntimeError("Failed to create rule")
RuleRepository_create(S, r) ==
    LET parents == MatchNodes(S, "Practice", r.practice_name)
    IN  IF MissingParameter(r, {"practice_name", "name", "title", "detail", "priority",
                                "category", "tags"})
        THEN [S |-> S, raised |-> TRUE]
        ELSE [S |-> CreateUnder(S, parents, "Rule", r, "HAS_RULE"),
              raised |-> parents = {}]

\* RuleRepository.get_by_practice: the names of the rules reached by HAS_RULE from
\* a Practice node named practice_name
RuleRepository_get_by_practice(S, practice_name) ==
    {r.to[2] : r \in {x \in S.rels :
                        /\ x.type = "HAS_RULE"
                        /\ x.from \in MatchNodes(S, "Practice", practice_name)
                        /\ x.to[1] = "Rule"}}

\* EvidenceRepository.create: CREATE (e:Evidence {...}) RETURN e
EvidenceRepository_create(S, e) ==
    IF MissingParameter(e, {"name", "title", "url", "summary", "source_type",
                            "credibility_score"})
    THEN [S |-> S, raised |-> TRUE]
    ELSE [S |-> CreateNode(S, "Evidence", e), raised |-> FALSE]

\* EvidenceRepository.link_to_rule: MATCH (e:Evidence {name}), (r:Rule {name})
\* CREATE (r)-[:SUPPORTED_BY]->(e) RETURN count(*) as created; returns created > 0
EvidenceRepository_link_to_rule(S, evidence_name, rule_name) ==
    LET es == MatchNodes(S, "Evidence", evidence_name)
        rs == MatchNodes(S, "Rule", rule_name)
    IN  [S |-> CreateRels(S, "SUPPORTED_BY", rs \X es),
         linked |-> Cardinality(rs \X es) > 0]

-----------------------------------------------------------------------------
(* Neo4jRadarIngestor.ingest_processed_data *)

\* the items of a batch, as <<category, position>>
ItemsOf(batch) ==
    {<<c, k>> : c \in {"methodologies"}, k \in 1..Len(batch.methodologies)}
      \cup {<<c, k>> : c \in {"practices"}, k \in 1..Len(batch.practices)}
      \cup {<<c, k>> : c \in {"rules"}, k \in 1..Len(batch.rules)}
      \cup {<<c, k>> : c \in {"evidence"}, k \in 1..Len(batch.evidence)}
      \cup {<<c, k>> : c \in {"connections"}, k \in 1..Len(batch.connections)}

NewResults ==
    [methodologies_created |-> 0,
     practices_created |-> 0,
     rules_created |-> 0,
     evidence_created |-> 0,
     connections_created |-> 0,
     errors |-> <<>>]

\* an except branch that swallows the failure without recording it
Failed_unrecorded(acc, what, name) == acc

\* the except branch of an item: the message "Failed to create <what> <name>: <e>"
\* is appended (kept as its parts), the loop goes on
Failed(acc, what, name) ==
    [acc EXCEPT !.results.errors = Append(@, [what |-> what, name |-> name])]

\* the body of the methodologies loop; storeFails: a query of this item raises
IngestMethodology(acc, m, storeFails) ==
    IF storeFails
    THEN Failed(acc, "methodology", m.name)
    ELSE IF ~MethodologyRepository_get_by_name(acc.S, m.name)
    THEN LET c == MethodologyRepository_create(acc.S, m)
         IN  IF c.raised
             THEN Failed(acc, "methodology", m.name)
             ELSE [acc EXCEPT !.S = c.S, !.results.methodologies_created = @ + 1]
    ELSE acc

\* the body of the practices loop
IngestPractice(acc, p, storeFails) ==
    IF storeFails
    THEN Failed(acc, "practice", p.name)
    ELSE IF ~PracticeRepository_get_by_name(acc.S, p.name)
    THEN LET c == PracticeRepository_create(acc.S, p)
         IN  IF c.raised
             THEN Failed(acc, "practice", p.name)
             ELSE [acc EXCEPT !.S = c.S, !.results.practices_created = @ + 1]
    ELSE acc

\* the body of the rules loop
IngestRule(acc, r, storeFails) ==
    IF storeFails
    THEN Failed(acc, "rule", r.title)
    ELSE IF r.name \notin RuleRepository_get_by_practice(acc.S, r.practice_name)
    THEN LET c == RuleRepository_create(acc.S, r)
         IN  IF c.raised
             THEN Failed(acc, "rule", r.title)
             ELSE [acc EXCEPT !.S = c.S, !.results.rules_created = @ + 1]
    ELSE acc

\* the body of the evidence loop: EvidenceCreate(**evidence_data), then create
IngestEvidence(acc, e, storeFails) ==
    IF storeFails \/ ~EvidenceCreateValid(e)
    THEN Failed(acc, "evidence", e.title)
    ELSE LET c == EvidenceRepository_create(acc.S, e)
         IN  IF c.raised
             THEN Failed(acc, "evidence", e.title)
             ELSE [acc EXCEPT !.S = c.S, !.results.evidence_created = @ + 1]

\* _create_connection: only SUPPORTED_BY writes; an unsuccessful link raises
\* a _create_connection that does not look at what link_to_rule returned
_create_connection_unchecked(S, connection) ==
    IF connection.type = "SUPPORTED_BY"
    THEN LET l == EvidenceRepository_link_to_rule(S, connection.to_name, connection.from_name)
         IN  [S |-> l.S, raised |-> FALSE]
    ELSE [S |-> S, raised |-> FALSE]

_create_connection(S, connection) ==
    IF connection.type = "SUPPORTED_BY"
    THEN LET l == EvidenceRepository_link_to_rule(S, connection.to_name, connection.from_name)
         IN  [S |-> l.S, raised |-> ~l.linked]
    ELSE [S |-> S, raised |-> FALSE]

\* the body of the connections loop
IngestConnection(acc, connection, storeFails) ==
    IF storeFails
    THEN Failed(acc, "connection", connection.from_name)
    ELSE LET c == _create_connection(acc.S, connection)
         IN  IF c.raised
             THEN Failed(acc, "connection", connection.from_name)
             ELSE [acc EXCEPT !.S = c.S, !.results.connections_created = @ + 1]

IngestItem(acc, category, item, storeFails) ==
    CASE category = "methodologies" -> IngestMethodology(acc, item, storeFails)
      [] category = "practices"     -> IngestPractice(acc, item, storeFails)
      [] category = "rules"         -> IngestRule(acc, item, storeFails)
      [] category = "evidence"      -> IngestEvidence(acc, item, storeFails)
      [] category = "connections"   -> IngestConnection(acc, item, storeFails)

\* one for-loop of ingest_processed_data, from position k on
RECURSIVE IngestLoop(_, _, _, _, _)
IngestLoop(acc, category, items, k, faults) ==
    IF k > Len(items) THEN acc
    ELSE LET tried == [acc EXCEPT !.attempted = Append(@, <<category, k>>)]
             after == IngestItem(tried, category, items[k], <<category, k>> \in faults)
         IN  IngestLoop(after, category, items, k + 1, faults)

\* the five loops in order; faults: the items on which the store raises.
\* Returns [S, results, attempted]; the call itself has no raising path.
ingest_processed_data(S, batch, faults) ==
    LET a0 == [S |-> S, results |-> NewResults, attempted |-> <<>>]
        a1 == IngestLoop(a0, "methodologies", batch.methodologies, 1, faults)
        a2 == IngestLoop(a1, "practices", batch.practices, 1, faults)
        a3 == IngestLoop(a2, "rules", batch.rules, 1, faults)
        a4 == IngestLoop(a3, "evidence", batch.evidence, 1, faults)
        a5 == IngestLoop(a4, "connections", batch.connections, 1, faults)
    IN  a5

-----------------------------------------------------------------------------
(* Neo4jRadarIngestor.ingest_radar_technique_direct *)

\* str.split()[0]: the first whitespace-delimited word ("" stands for the
\* IndexError of a name without any word)
FirstWord(s) ==
    LET starts == {i \in 1..Len(s) : CharAt(s, i) # " "}
    IN  IF starts = {} THEN ""
        ELSE LET a == CHOOSE i \in starts : \A j \in starts : i <= j
                 ends == {j \in (a + 1)..Len(s) : CharAt(s, j) = " "} \cup {Len(s) + 1}
                 b == CHOOSE i \in ends : \A j \in ends : i <= j
             IN  SubSeq(s, a, b - 1)

RadarProps(t) ==
    [name |-> t.name,
     quadrant |-> t.quadrant,
     ring |-> t.ring,
     movement |-> t.movement,
     description |-> t.description,
     volume |-> t.volume,
     edition_date |-> t.edition_date,
     source_url |-> t.source_url]

\* datetime() of a write query: later than every time stamp already stored
datetime(S) ==
    1 + Max({0} \cup {S.nodes[id].created_at : id \in NodesOfLabel(S, "RadarTechnique")}
                \cup {S.nodes[id].updated_at : id \in NodesOfLabel(S, "RadarTechnique")})

\* the map of SET rt += {...}: the seven fields of the technique and the two
\* time stamps, both datetime()
RadarPropsAt(t, at) ==
    [name |-> t.name,
     quadrant |-> t.quadrant,
     ring |-> t.ring,
     movement |-> t.movement,
     description |-> t.description,
     volume |-> t.volume,
     edition_date |-> t.edition_date,
     source_url |-> t.source_url,
     created_at |-> at,
     updated_at |-> at]

\* CREATE in place of MERGE: a new node on every call
MergeRadarTechnique_create(S, t) ==
    CreateNode(S, "RadarTechnique", RadarPropsAt(t, datetime(S)))

\* MERGE (rt:RadarTechnique:TechRadar {name: $name}) SET rt += {...}:
\* every node matched is overwritten; one is created when nothing matches
MergeRadarTechnique(S, t) ==
    LET ms == MatchNodes(S, "RadarTechnique", t.name)
        props == RadarPropsAt(t, datetime(S))
    IN  IF ms = {}
        THEN CreateNode(S, "RadarTechnique", props)
        ELSE [S EXCEPT !.nodes = [id \in DOMAIN S.nodes |->
                                    IF id \in ms THEN props ELSE S.nodes[id]]]

\* the WHERE clause of the linking query; CONTAINS and IN compare exactly
PracticeMatchesKeyword(props, keyword) ==
    \/ Contains(keyword, props.name)
    \/ Contains(keyword, props.description)
    \/ \E k \in 1..Len(props.tools) : props.tools[k] = keyword

\* _link_radar_technique_to_practices: MERGE (rt)-[:INFLUENCES_PRACTICE]->(p) for
\* every technique node rt of that name and every matching practice p
_link_radar_technique_to_practices(S, t) ==
    LET keyword == FirstWord(Lower(t.name))
        rts == MatchNodes(S, "RadarTechnique", t.name)
        ps == {id \in NodesOfLabel(S, "Practice") :
                 PracticeMatchesKeyword(S.nodes[id], keyword)}
        missing == {pr \in rts \X ps :
                      RelsBetween(S, "INFLUENCES_PRACTICE", pr[1], pr[2]) = {}}
    IN  CreateRels(S, "INFLUENCES_PRACTICE", missing)

\* mergeFails: the MERGE query raises; linkFails: the linking query raises (the
\* warning is logged and the call still reports success).
\* Returns [S, result]
ingest_radar_technique_direct(S, t, mergeFails, linkFails) ==
    IF mergeFails
    THEN [S |-> S, result |-> [success |-> FALSE, error |-> "store failure"]]
    ELSE LET merged == MergeRadarTechnique(S, t)
         IN  [S |-> IF linkFails THEN merged
                    ELSE _link_radar_technique_to_practices(merged, t),
              result |-> [success |-> TRUE, radar_technique_created |-> TRUE]]

-----------------------------------------------------------------------------
(* Neo4jRadarIngestor.update_radar_technique_ring *)

\* a query that also rewrites the description of the node
SetRing_and_description(props, new_ring, at) ==
    [props EXCEPT !.ring = new_ring, !.updated_at = at, !.description = ""]

\* SET rt.ring = $new_ring, rt.updated_at = datetime()
SetRing(props, new_ring, at) ==
    [props EXCEPT !.ring = new_ring, !.updated_at = at]

\* MATCH (rt:RadarTechnique {name: $technique_name}) SET ... RETURN rt.name:
\* True when a row comes back, False when none does or the query raises.
\* new_ring is written as it is given.  Returns [S, result]
update_radar_technique_ring(S, technique_name, new_ring, queryFails) ==
    LET ms == MatchNodes(S, "RadarTechnique", technique_name)
        at == datetime(S)
    IN  IF queryFails
        THEN [S |-> S, result |-> FALSE]
        ELSE [S |-> [S EXCEPT !.nodes = [id \in DOMAIN S.nodes |->
                                           IF id \in ms
                                           THEN SetRing(S.nodes[id], new_ring, at)
                                           ELSE S.nodes[id]]],
              result |-> ms # {}]

-----------------------------------------------------------------------------
(* Inputs of the model *)

MaxNodes == 5    \* nodes held by the store
MaxRels == 5     \* relationships held by the store
MaxFaults == 1   \* items of one batch on which the store raises
MaxTime == 3     \* latest time stamp written by a call on the ingestor alone

Rings == {"Adopt", "Trial", "Assess", "Hold"}

RadarUrl == "https://www.thoughtworks.com/radar"

DescThreat ==
    "A structured approach to identifying and addressing potential security threats "
    \o "in software systems. This established practice helps teams proactively identify "
    \o "vulnerabilities and design appropriate security controls. Teams review the "
    \o "architecture early and revisit the threat model whenever the design changes."

DescFuzz == "Fuzz testing feeds malformed input to a program to expose defects early."

DescFuzzLater == "Coverage-guided fuzzers now find deep defects with little effort."

DescShort == "Peers read each change before it is merged..."

\* a description longer than the 500 characters kept by the Quality Assurance practice
DescLong == DescThreat \o " " \o DescThreat


\* a name of n characters
NameOfLen(n) == "Q" \o Repeat("a", n - 1)

\* the shortest name whose Evidence title exceeds the 200 characters of EvidenceCreate
LongTitleName == NameOfLen(NameMaxLen - Len("ThoughtWorks Technology Radar: ") + 1)

\* the shortest name whose Rule name exceeds the 200 characters of RuleCreate
LongSlugName == NameOfLen(NameMaxLen - Len("thoughtworks-") + 1)

Technique(name, ring, description, source_url) ==
    [name |-> name,
     quadrant |-> "Techniques",
     ring |-> ring,
     movement |-> "No change",
     description |-> description,
     volume |-> 32,
     edition_date |-> "2025-04",
     source_url |-> source_url]

NoTechnique == [name |-> None]

DescChaos == "Failure injection drills complement testing in production."

TChaos == Technique("Chaos Drills", "Trial", DescChaos, RadarUrl)
TFuzz == Technique("Fuzz Testing", "Trial", DescFuzz, None)
TThreat == Technique("Threat Modeling", "Adopt", DescThreat, RadarUrl)
TLongTitle == Technique(LongTitleName, "Adopt", DescShort, RadarUrl)
TReview == Technique("Security Review", "Assess", DescShort, RadarUrl)

\* the techniques ingest_processed_data is called with: only the DevOps rule
\* fires; both rules fire (no source URL); neither fires and the Evidence title
\* is one character too long
IngestTechniques == {TChaos, TFuzz, TLongTitle}

\* a technique on which only the Quality Assurance rule fires
RuleBTechniques == {TReview}

\* the techniques ingest_radar_technique_direct is called with
RadarTechniques ==
    {Technique("Fuzz Testing", "Trial", DescFuzz, RadarUrl),
     Technique("Fuzz Testing", "Adopt", DescFuzzLater, None),
     Technique("Threat Modeling", "Adopt", DescThreat, RadarUrl),
     Technique("chaos Drills", "Hold", DescChaos, None)}

StoreTechniques == IngestTechniques \cup RuleBTechniques \cup RadarTechniques

MethodologyRequests ==
    {[name |-> "DevOps",
      description |-> "Practices that combine development and operations",
      origin |-> "Patrick Debois",
      year_created |-> 2009,
      category |-> "DevOps"],
     [name |-> "Quality Assurance",
      description |-> "Systematic approach to ensuring software quality and security",
      origin |-> "Software Engineering Best Practices",
      year_created |-> 1951,
      category |-> "Quality"]}

PracticeRequests ==
    {[name |-> "Chaos Drills Practice",
      description |-> "Seeded by hand",
      methodology_name |-> "DevOps",
      tools |-> <<>>,
      difficulty_level |-> "Intermediate",
      estimated_time |-> "1 week"]}

RuleRequests ==
    {[name |-> "thoughtworks-chaos-drills",
      title |-> "Drill every quarter",
      detail |-> "Every service takes part in a failure drill each quarter",
      practice_name |-> "Chaos Drills Practice",
      priority |-> "medium",
      category |-> "resilience",
      tags |-> <<>>]}

MethodologyNames == {"DevOps", "Quality Assurance"}

Store == [nodes |-> nodes, rels |-> rels]

WithinBounds(S) ==
    /\ Cardinality(DOMAIN S.nodes) <= MaxNodes
    /\ Cardinality(S.rels) <= MaxRels

\* process_radar_technique of every technique of the model
Processed == [t \in StoreTechniques |-> process_radar_technique(t)]

FaultChoices(batch) ==
    {F \in SUBSET ItemsOf(batch) : Cardinality(F) <= MaxFaults}

-----------------------------------------------------------------------------
(* Operations on the store *)

StoreInit ==
    /\ nodes = EmptyStore.nodes
    /\ rels = EmptyStore.rels
    /\ last = [op |-> "none"]

\* no index page fetched yet
NoPage == [ok |-> FALSE]

RunIdle ==
    /\ pc = "idle"
    /\ technique_paths = <<>>
    /\ idx = 0
    /\ technique = NoTechnique
    /\ processed_data = EmptyBatch
    /\ ingest_results = NewResults
    /\ results = [success |-> TRUE]
    /\ fetched = <<>>
    /\ log = <<>>
    /\ calls = <<>>
    /\ index_page = NoPage
    /\ outages = 0

Init == StoreInit /\ RunIdle

\* MethodologyRepository.create called by the seed script or the create route
CreateMethodology ==
    \E m \in MethodologyRequests :
        LET c == MethodologyRepository_create(Store, m)
        IN  /\ WithinBounds(c.S)
            /\ nodes' = c.S.nodes
            /\ rels' = c.S.rels
            /\ last' = [op |-> "MethodologyRepository.create", arg |-> m,
                        raised |-> c.raised]
            /\ UNCHANGED runVars

\* PracticeRepository.create called by the seed script or the create route
CreatePractice ==
    \E p \in PracticeRequests :
        LET c == PracticeRepository_create(Store, p)
        IN  /\ WithinBounds(c.S)
            /\ nodes' = c.S.nodes
            /\ rels' = c.S.rels
            /\ last' = [op |-> "PracticeRepository.create", arg |-> p,
                        raised |-> c.raised]
            /\ UNCHANGED runVars

\* RuleRepository.create called by the seed script or the create route
CreateRule ==
    \E r \in RuleRequests :
        LET c == RuleRepository_create(Store, r)
        IN  /\ WithinBounds(c.S)
            /\ nodes' = c.S.nodes
            /\ rels' = c.S.rels
            /\ last' = [op |-> "RuleRepository.create", arg |-> r,
                        raised |-> c.raised]
            /\ UNCHANGED runVars

\* the text of an exception raised by the driver or the store
ExceptionText == "ServiceUnavailable: connection refused"

\* what a handler answers: the status code and the detail of the HTTPException
\* (or of the body), with the cause inside the handler and the text of the
\* internal exception, if any, kept beside them
Response(status, detail, cause, exception) ==
    [status |-> status, detail |-> detail, cause |-> cause, exception |-> exception]

\* a delete that takes the practices of the methodology with it
delete_methodology_cascade(S, name, storeFails) ==
    LET d == MethodologyRepository_delete(S, name)
        ps == {r.to : r \in {x \in S.rels : /\ x.type = "HAS_PRACTICE"
                                             /\ x.from[1] = "Methodology"
                                             /\ x.from[2] = name}}
        keep == DOMAIN d.S.nodes \ ps
    IN  IF storeFails
        THEN [S |-> S, status |-> 500,
              response |-> Response(500, "Failed to delete methodology", "internal",
                                    ExceptionText)]
        ELSE [S |-> [nodes |-> [id \in keep |-> d.S.nodes[id]],
                     rels |-> {r \in d.S.rels : r.from \in keep /\ r.to \in keep}],
              status |-> IF d.deleted THEN 204 ELSE 404,
              response |-> Response(IF d.deleted THEN 204 ELSE 404, "", "none", None)]

\* the DELETE /methodologies/{name} route: 404 when the repository returns False,
\* 500 with a fixed detail when it raises, 204 otherwise
delete_methodology(S, name, storeFails) ==
    IF storeFails
    THEN [S |-> S, status |-> 500,
          response |-> Response(500, "Failed to delete methodology", "internal",
                                ExceptionText)]
    ELSE LET d == MethodologyRepository_delete(S, name)
         IN  [S |-> d.S, status |-> IF d.deleted THEN 204 ELSE 404,
              response |-> IF d.deleted
                           THEN Response(204, "", "none", None)
                           ELSE Response(404, "Methodology '" \o name \o "' not found",
                                         "not_found", None)]

DeleteMethodology ==
    \E name \in MethodologyNames, storeFails \in BOOLEAN :
        LET d == delete_methodology(Store, name, storeFails)
        IN  /\ nodes' = d.S.nodes
            /\ rels' = d.S.rels
            /\ last' = [op |-> "delete_methodology", arg |-> name,
                        raised |-> storeFails, status |-> d.status,
                        response |-> d.response]
            /\ UNCHANGED runVars

\* the GET /methodologies/{name} route: 404 when get_by_name returns None, 500
\* with a fixed detail when it raises, 200 otherwise
get_methodology(S, name, storeFails) ==
    IF storeFails
    THEN Response(500, "Failed to retrieve methodology", "internal", ExceptionText)
    ELSE IF MethodologyRepository_get_by_name(S, name)
         THEN Response(200, "", "none", None)
         ELSE Response(404, "Methodology '" \o name \o "' not found", "not_found", None)

GetMethodology ==
    \E name \in MethodologyNames, storeFails \in BOOLEAN :
        /\ last' = [op |-> "get_methodology", arg |-> name,
                    response |-> get_methodology(Store, name, storeFails)]
        /\ UNCHANGED <<nodes, rels>>
        /\ UNCHANGED runVars

\* processor.process_radar_technique(t) followed by ingestor.ingest_processed_data
IngestProcessedData ==
    \E t \in IngestTechniques :
        LET batch == Processed[t]
        IN  /\ ~batch.raised
            /\ \E faults \in FaultChoices(batch) :
                 \E r \in {ingest_processed_data(Store, batch, faults)} :
                     /\ WithinBounds(r.S)
                     /\ nodes' = r.S.nodes
                     /\ rels' = r.S.rels
                     /\ last' = [op |-> "ingest_processed_data", arg |-> t,
                                 faults |-> faults,
                                 results |-> r.results, attempted |-> r.attempted,
                                 repeat |-> /\ last.op = "ingest_processed_data"
                                            /\ last.arg = t
                                            /\ last.faults = {}]
                     /\ UNCHANGED runVars

\* the same call on the batch of a technique of rule B alone
IngestRuleBData ==
    \E t \in RuleBTechniques :
        LET batch == Processed[t]
        IN  /\ ~batch.raised
            /\ \E faults \in FaultChoices(batch) :
                 \E r \in {ingest_processed_data(Store, batch, faults)} :
                     /\ WithinBounds(r.S)
                     /\ nodes' = r.S.nodes
                     /\ rels' = r.S.rels
                     /\ last' = [op |-> "ingest_processed_data", arg |-> t,
                                 faults |-> faults,
                                 results |-> r.results, attempted |-> r.attempted,
                                 repeat |-> /\ last.op = "ingest_processed_data"
                                            /\ last.arg = t
                                            /\ last.faults = {}]
                     /\ UNCHANGED runVars

\* ingestor.ingest_radar_technique_direct(t)
IngestRadarTechniqueDirect ==
    \E t \in RadarTechniques, mergeFails \in BOOLEAN, linkFails \in BOOLEAN :
        \E r \in {ingest_radar_technique_direct(Store, t, mergeFails, linkFails)} :
            /\ ~(mergeFails /\ linkFails)
            /\ datetime(Store) <= MaxTime
            /\ WithinBounds(r.S)
            /\ nodes' = r.S.nodes
            /\ rels' = r.S.rels
            /\ last' = [op |-> "ingest_radar_technique_direct", arg |-> t,
                        raised |-> mergeFails, linkFails |-> linkFails,
                        result |-> r.result,
                        replaced |-> {nodes[id].description :
                                        id \in MatchNodes(Store, "RadarTechnique", t.name)},
                        before |-> {nodes[id] :
                                      id \in MatchNodes(Store, "RadarTechnique", t.name)}]
            /\ UNCHANGED runVars

\* the ring arguments of update_radar_technique_ring: new_ring is a str, so the
\* four rings, a ring in lower case and a word that is no ring
RingArguments == Rings \cup {"adopt", "Retire"}

RadarNames == {t.name : t \in RadarTechniques}

\* ingestor.update_radar_technique_ring(technique_name, new_ring)
UpdateRadarTechniqueRing ==
    \E technique_name \in RadarNames, new_ring \in RingArguments,
       queryFails \in BOOLEAN :
        \E r \in {update_radar_technique_ring(Store, technique_name, new_ring,
                                              queryFails)} :
            /\ datetime(Store) <= MaxTime
            /\ nodes' = r.S.nodes
            /\ rels' = r.S.rels
            /\ last' = [op |-> "update_radar_technique_ring", arg |-> technique_name,
                        new_ring |-> new_ring, raised |-> queryFails,
                        result |-> r.result]
            /\ UNCHANGED runVars

Next ==
    \/ CreateMethodology
    \/ CreatePractice
    \/ IngestProcessedData

Spec == Init /\ [][Next]_vars

NextRuleB ==
    \/ CreateMethodology
    \/ CreatePractice
    \/ IngestRuleBData

SpecRuleB == Init /\ [][NextRuleB]_vars

NextRepo ==
    \/ CreateMethodology
    \/ CreatePractice
    \/ CreateRule
    \/ DeleteMethodology

SpecRepo == Init /\ [][NextRepo]_vars

NextRadar ==
    \/ CreateMethodology
    \/ CreatePractice
    \/ IngestRadarTechniqueDirect

SpecRadar == Init /\ [][NextRadar]_vars

\* the repository calls, the delete route and the ingestion of a batch
NextStore ==
    \/ CreateMethodology
    \/ CreatePractice
    \/ CreateRule
    \/ DeleteMethodology
    \/ IngestRuleBData

SpecStore == Init /\ [][NextStore]_vars

NextRing ==
    \/ IngestRadarTechniqueDirect
    \/ UpdateRadarTechniqueRing

SpecRing == Init /\ [][NextRing]_vars

-----------------------------------------------------------------------------
(* The processor alone: process_radar_technique applied to one technique *)

ProcNames ==
    {"Threat Modeling", "Fuzz Testing", "Security Review", "Chaos Drills",
     "Code Quality Gates", LongSlugName}

ProcDescriptions == {DescThreat, DescFuzz, DescShort, DescLong}

ProcTechniques ==
    {Technique(name, ring, description, source_url) :
        name \in ProcNames, ring \in Rings, description \in ProcDescriptions,
        source_url \in {RadarUrl, None}}

InitProc ==
    /\ StoreInit
    /\ pc = "input"
    /\ technique \in ProcTechniques
    /\ technique_paths = <<>>
    /\ idx = 0
    /\ processed_data = EmptyBatch
    /\ ingest_results = NewResults
    /\ results = [success |-> TRUE]
    /\ fetched = <<>>
    /\ log = <<>>
    /\ calls = <<>>
    /\ index_page = NoPage
    /\ outages = 0

ProcessRadarTechnique ==
    /\ pc = "input"
    /\ processed_data' = process_radar_technique(technique)
    /\ pc' = "processed"
    /\ UNCHANGED <<nodes, rels, last, technique_paths, idx, technique,
                   ingest_results, results, fetched, log, outages,
                   calls,
                   index_page>>

NextProc == ProcessRadarTechnique

SpecProc == InitProc /\ [][NextProc]_vars

\* the input of the worked example: "Threat Modeling", Adopt, a description of
\* 280 characters or more with 'security' and 'review' in it, a source URL
ThreatModelingExample(t) ==
    /\ t.name = "Threat Modeling"
    /\ t.ring = "Adopt"
    /\ Len(t.description) >= 280
    /\ Contains("security", t.description)
    /\ Contains("review", t.description)
    /\ t.source_url # None

RuleEvidenceConnectionOfExample(batch) ==
    /\ ~batch.raised
    /\ Len(batch.rules) = 1
    /\ batch.rules[1].name = "thoughtworks-threat-modeling"
    /\ batch.rules[1].priority = "high"
    /\ batch.rules[1].title = "Adopt Threat Modeling"
    /\ Len(batch.evidence) = 1
    /\ batch.evidence[1].credibility_score = 85
    /\ Len(batch.connections) = 1
    /\ batch.connections[1].type = "SUPPORTED_BY"

C18_RingMappings ==
    (pc = "processed" /\ ~processed_data.raised)
    => /\ technique.ring \in {"Adopt", "Trial", "Assess", "Hold"}
       /\ \A i \in DOMAIN processed_data.practices :
            processed_data.practices[i].difficulty_level =
               [Adopt |-> "Beginner", Trial |-> "Intermediate",
                Assess |-> "Advanced", Hold |-> "Advanced"][technique.ring]
       /\ \A i \in DOMAIN processed_data.rules :
            processed_data.rules[i].priority =
               [Adopt |-> "high", Trial |-> "medium",
                Assess |-> "low", Hold |-> "critical"][technique.ring]

\* a technique on Hold with a Practice and a Rule: Advanced and critical
C18_Witness ==
    /\ pc = "processed"
    /\ ~processed_data.raised
    /\ technique.ring = "Hold"
    /\ Len(processed_data.practices) >= 1
    /\ processed_data.practices[1].difficulty_level = "Advanced"
    /\ Len(processed_data.rules) = 1
    /\ processed_data.rules[1].priority = "critical"

\* C14: for every technique the RadarTechnique model accepts, the processor
\* returns a batch with exactly one Rule request, named "thoughtworks-" followed
\* by the lower-cased technique name with hyphens for spaces, whether or not the
\* mapping rules fired.
C14_OneRulePerTechnique ==
    (pc = "processed" /\ RadarTechniqueValid(technique))
    => /\ ~processed_data.raised
       /\ Len(processed_data.rules) = 1
       /\ processed_data.rules[1].name = Slug(technique.name)

-----------------------------------------------------------------------------
(* The scraper as the orchestrator sees it, and the orchestrator *)

PathCeiling == 5     \* technique_paths[:5]
SleepSeconds == 2    \* asyncio.sleep(2)

MaxPaths == 7        \* length of the longest explicit path list
MaxOutages == 1      \* store failures in one run

SummaryPrefix == "/techniques/summary/"

\* urljoin(base_url, technique_path) for a path that starts with "/": the path
\* replaces the path of the base URL
urljoin(path) == "https://www.thoughtworks.com" \o path

\* path.split('/')[-1]
LastSegment(path) ==
    LET slashes == {i \in 1..Len(path) : CharAt(path, i) = "/"}
    IN  SubSeq(path, Max(slashes \cup {0}) + 1, Len(path))

\* _extract_technique_name: the last path segment, hyphens to spaces, title-cased;
\* the page's h1 / title when the segment is empty; None when there is neither
_extract_technique_name(path, page) ==
    LET segment == LastSegment(path)
    IN  IF segment # "" THEN Title(Replace(segment, "-", " "))
        ELSE IF page.title # "" THEN page.title
        ELSE None

\* what the try block of scrape_technique does: it raises when the fetch or the
\* parse raises and when the RadarTechnique constructor rejects the fields; it
\* returns None when no name is found
scrape_technique_try(technique_path, page) ==
    IF ~page.ok THEN [raised |-> TRUE]
    ELSE LET name == _extract_technique_name(technique_path, page)
         IN  IF name = None THEN [raised |-> FALSE, value |-> NoTechnique]
             ELSE LET t == [name |-> name,
                            quadrant |-> "Techniques",
                            ring |-> IF page.ring = None THEN "Assess" ELSE page.ring,
                            movement |-> "No change",
                            description |-> IF page.description \in {None, ""}
                                            THEN "Technology Radar technique: " \o name
                                            ELSE page.description,
                            volume |-> 32,
                            edition_date |-> "2025-04",
                            source_url |-> urljoin(technique_path)]
                  IN  IF RadarTechniqueValid(t)
                      THEN [raised |-> FALSE, value |-> t]
                      ELSE [raised |-> TRUE]

\* without the except clause the exception reaches the caller
scrape_technique_uncaught(technique_path, page) ==
    LET body == scrape_technique_try(technique_path, page)
    IN  IF body.raised THEN body ELSE body.value

\* scrape_technique: "except Exception: return None" around the whole body
scrape_technique(technique_path, page) ==
    LET body == scrape_technique_try(technique_path, page)
    IN  IF body.raised THEN NoTechnique ELSE body.value

FailedPage == [ok |-> FALSE]

Page(description, ring) ==
    [ok |-> TRUE, title |-> "", description |-> description, ring |-> ring]

FuzzPath == SummaryPrefix \o "fuzz-testing"
ThreatPath == SummaryPrefix \o "threat-modeling"
ChaosPath == SummaryPrefix \o "chaos-drills"
ReviewPath == SummaryPrefix \o "code-review"
GatesPath == SummaryPrefix \o "quality-gates"
\* a slug whose title-cased name is LongSlugName: the processor's RuleCreate raises
LongSlugPath == SummaryPrefix \o Lower(LongSlugName)

\* what the site serves for a path when the fetch succeeds
PageAt(path) ==
    CASE path = FuzzPath -> Page(DescFuzz, "Trial")
      [] path = ThreatPath -> Page(DescThreat, "Adopt")
      [] path = ChaosPath -> Page(DescChaos, "Trial")
      [] path = ReviewPath -> Page(DescShort, "Hold")
      [] OTHER -> Page(None, None)

PagesOf(path) == {FailedPage, PageAt(path)}

\* explicit path lists: the first n of a list that repeats three paths
CyclePaths == <<FuzzPath, LongSlugPath, ThreatPath>>

PathList(n) == [k \in 1..n |-> CyclePaths[((k - 1) % 3) + 1]]

ExplicitPaths == {PathList(n) : n \in 0..MaxPaths}

\* hyperlink targets that are not technique summaries
RadarHome == "/radar"
PlatformsPath == "/radar/platforms/summary/chaos-drills"
\* an absolute link to a technique summary: the pattern is found inside it
AbsoluteFuzzPath == "https://www.thoughtworks.com/radar" \o FuzzPath

\* the index page: the href of every <a href=...> in document order, or a fetch
\* that failed (FailedPage)
IndexPage(hrefs) == [ok |-> TRUE, hrefs |-> hrefs]

\* "if '/techniques/summary/' in href"
IsTechniqueLink(href) == Contains(SummaryPrefix, href)

Range(seq) == {seq[i] : i \in DOMAIN seq}

\* list(set(technique_links)): every element once, in an order that the hash
\* seed of the interpreter decides
ListOfSet(S) ==
    {seq \in [1..Cardinality(S) -> S] : Range(seq) = S}

\* the same without set(): the links as they were collected
scrape_techniques_list_all_links(page) ==
    IF ~page.ok THEN {<<>>}
    ELSE {SelectSeq(page.hrefs, IsTechniqueLink)}

\* scrape_techniques_list: the lists it can return for an index page; [] when
\* the fetch or the parse raises
scrape_techniques_list(page) ==
    IF ~page.ok THEN {<<>>}
    ELSE ListOfSet(Range(SelectSeq(page.hrefs, IsTechniqueLink)))

\* index pages of a run: no technique link at all, 2 technique links, and 3
\* distinct technique links of which 2 are repeated, among other links
RunIndexPages ==
    {FailedPage,
     IndexPage(<<RadarHome>>),
     IndexPage(<<ChaosPath, ThreatPath>>),
     IndexPage(<<ChaosPath, RadarHome, ThreatPath, ChaosPath, PlatformsPath,
                 ReviewPath, ThreatPath>>)}

TechniqueNames == {"fuzz-testing", "chaos-drills", Lower(LongSlugName)}

AllPaths ==
    {FuzzPath, ThreatPath, ChaosPath, ReviewPath, GatesPath, LongSlugPath}

RunTechniques ==
    {scrape_technique(path, PageAt(path)) : path \in AllPaths}

\* what scrape_technique can return for each path
ScrapeOutcomes ==
    [path \in AllPaths |-> {scrape_technique(path, page) : page \in PagesOf(path)}]

\* process_radar_technique of every technique the scraper returns
ProcessedRun == [t \in RunTechniques |-> process_radar_technique(t)]

\* the paths the loop of run_full_pipeline iterates over
technique_paths_limited_all(paths) == paths

technique_paths_limited(paths) == SubSeq(paths, 1, Min(PathCeiling, Len(paths)))

\* a loop that walks the paths from the last to the first
enumerate_item_reversed(paths, i) ==
    technique_paths_limited(paths)[Len(technique_paths_limited(paths)) - i + 1]

\* "for i, technique_path in enumerate(technique_paths[:5], 1)": the path of the
\* i-th iteration
enumerate_item(paths, i) == technique_paths_limited(paths)[i]

\* one component call of a run
Call(stage, path) == [stage |-> stage, path |-> path]

\* the results dictionary run_full_pipeline starts with (start_time left out)
InitialResults ==
    [techniques_processed |-> 0,
     total_entities_created |-> 0,
     errors |-> <<>>,
     success |-> TRUE]

\* an absent scrape adds an entry to the summary's errors
AfterAbsentScrape_recorded(res, technique_path) ==
    [res EXCEPT !.errors = Append(@, [what |-> "scrape", name |-> technique_path])]

\* run_full_pipeline, "if not technique: logger.warning(...); continue": the
\* summary is left as it is
AfterAbsentScrape(res, technique_path) == res

\* run_full_pipeline, the except branch of one item
AfterItemException(res, technique_path) ==
    [res EXCEPT !.errors = Append(@, [what |-> "technique", name |-> technique_path]),
                !.success = FALSE]

\* run_full_pipeline, "Update results" after the two ingest calls of one item
AfterItem(res, ingested) ==
    [res EXCEPT !.techniques_processed = @ + 1,
                !.total_entities_created =
                    @ + ingested.methodologies_created + ingested.practices_created
                      + ingested.rules_created + ingested.evidence_created,
                !.errors = @ \o ingested.errors]

\* get_radar_techniques_summary: the RadarTechnique nodes (kept as their names);
\* [] when the query raises
get_radar_techniques_summary(S, queryFails) ==
    IF queryFails THEN {} ELSE {id[2] : id \in NodesOfLabel(S, "RadarTechnique")}

\* a failure return of run_single_technique without the success flag
SingleFailure_no_flag(message) == [error |-> message]

\* run_single_technique: the dictionary returned on a failed scrape or an exception
SingleFailure(message) == [success |-> FALSE, error |-> message]

\* run_single_technique: the dictionary returned after the two ingest calls
SingleSuccess(t, ingested, radar_result) ==
    [success |-> TRUE,
     technique |-> t.name,
     entities_created |-> ingested.methodologies_created + ingested.practices_created
                            + ingested.rules_created + ingested.evidence_created,
     radar_technique_created |-> radar_result.success,
     errors |-> ingested.errors]

Event(name) == [event |-> name]

\* a close() that leaves the HTTP client open
scraper_close_never(events) == events

\* ThoughtWorksRadarScraper.close: self.client.close(), kept as an event of the run
scraper_close(events) == Append(events, Event("close"))

\* the store a run starts with: empty, or seeded with the DevOps methodology
SeededStore ==
    CreateNode(EmptyStore, "Methodology",
               CHOOSE m \in MethodologyRequests : m.name = "DevOps")

InitRun ==
    /\ \E S \in {EmptyStore, SeededStore} : nodes = S.nodes /\ rels = S.rels
    /\ last = [op |-> "none"]
    /\ RunIdle

\* run_full_pipeline(technique_paths) up to the loop; None and [] are both "not
\* technique_paths" and are the empty list here
StartFullPipeline ==
    /\ pc = "idle"
    /\ \E paths \in ExplicitPaths :
         /\ technique_paths' = paths
         /\ pc' = IF paths = <<>> THEN "list" ELSE "loop"
    /\ results' = InitialResults
    /\ log' = <<Event("run_full_pipeline")>>
    /\ UNCHANGED <<nodes, rels, last, idx, technique, processed_data,
                   ingest_results, fetched, outages,
                   calls,
                   index_page>>

\* technique_paths = self.scraper.scrape_techniques_list()
ScrapeTechniquesList ==
    /\ pc = "list"
    /\ \E page \in RunIndexPages :
         /\ index_page' = page
         /\ technique_paths' \in scrape_techniques_list(page)
         /\ log' = IF page.ok THEN log ELSE Append(log, Event("list_error"))
    /\ pc' = "loop"
    /\ UNCHANGED <<nodes, rels, last, idx, technique, processed_data,
                   ingest_results, results, fetched, outages,
                   calls>>

\* the next item of the loop: scrape_technique(technique_path); an absent result
\* is logged and the loop continues
ScrapeTechnique ==
    /\ pc = "loop"
    /\ idx < Len(technique_paths_limited(technique_paths))
    /\ LET technique_path == enumerate_item(technique_paths, idx + 1)
       IN  /\ fetched' = Append(fetched, technique_path)
           /\ calls' = Append(calls, Call("scrape_technique", technique_path))
           /\ \E t \in ScrapeOutcomes[technique_path] :
                /\ technique' = t
                /\ IF t.name = None
                   THEN /\ results' = AfterAbsentScrape(results, technique_path)
                        /\ log' = Append(log, Event("warning"))
                        /\ pc' = "loop"
                   ELSE /\ pc' = "item"
                        /\ UNCHANGED <<results, log>>
    /\ idx' = idx + 1
    /\ UNCHANGED <<nodes, rels, last, technique_paths, processed_data,
                   ingest_results, outages,
                   index_page>>

\* process_radar_technique, ingest_processed_data and
\* ingest_radar_technique_direct on one scraped technique, as both entry points
\* call them in a row: every outcome the store allows with at most budget
\* failures.  The processor may raise; the ingestor's calls catch their own
\* failures.
ItemOutcome(S, t, batch, faults, mergeFails, linkFails) ==
    LET r == ingest_processed_data(S, batch, faults)
        d == ingest_radar_technique_direct(r.S, t, mergeFails, linkFails)
    IN  [raised |-> FALSE,
         stages |-> <<"process_radar_technique", "ingest_processed_data",
                      "ingest_radar_technique_direct">>,
         S |-> d.S,
         batch |-> batch,
         ingest_results |-> r.results,
         radar_result |-> d.result,
         failures |-> Cardinality(faults) + (IF mergeFails THEN 1 ELSE 0)
                        + (IF linkFails THEN 1 ELSE 0)]

ItemOutcomes(S, t, budget) ==
    LET batch == ProcessedRun[t]
    IN  IF batch.raised
        THEN {[raised |-> TRUE, stages |-> <<"process_radar_technique">>,
               S |-> S, batch |-> batch, failures |-> 0]}
        ELSE {ItemOutcome(S, t, batch, c[1], c[2], c[3]) :
                c \in {x \in FaultChoices(batch) \X BOOLEAN \X BOOLEAN :
                         /\ ~(x[2] /\ x[3])
                         /\ Cardinality(x[1]) <= budget}}

\* the body of the loop after a scrape that returned a technique
HandleTechnique ==
    /\ pc = "item"
    /\ \E o \in ItemOutcomes(Store, technique, MaxOutages - outages) :
         /\ o.failures <= MaxOutages - outages
         /\ outages' = outages + o.failures
         /\ nodes' = o.S.nodes
         /\ rels' = o.S.rels
         /\ calls' = calls \o [k \in DOMAIN o.stages |->
                                  Call(o.stages[k], technique_paths[idx])]
         /\ IF o.raised
            THEN /\ results' = AfterItemException(results, technique_paths[idx])
                 /\ log' = Append(log, Event("error"))
                 /\ pc' = "loop"
                 /\ UNCHANGED <<processed_data, ingest_results>>
            ELSE /\ processed_data' = o.batch
                 /\ ingest_results' = o.ingest_results
                 /\ results' = AfterItem(results, o.ingest_results)
                 /\ pc' = "sleep"
                 /\ UNCHANGED log
    /\ UNCHANGED <<last, technique_paths, idx, technique, fetched,
                   index_page>>

\* await asyncio.sleep(2), reached only after a handled item
Sleep ==
    /\ pc = "sleep"
    /\ log' = Append(log, [event |-> "sleep", seconds |-> SleepSeconds])
    /\ pc' = "loop"
    /\ UNCHANGED <<nodes, rels, last, technique_paths, idx, technique,
                   processed_data, ingest_results, results, fetched, outages,
                   calls,
                   index_page>>

\* after the loop: results.update({... radar_techniques_summary ...}); the time
\* fields are left out.  The outer except branch is not reachable: the calls
\* outside the per-item try catch their own failures.
Summarise ==
    /\ pc = "loop"
    /\ idx >= Len(technique_paths_limited(technique_paths))
    /\ \E queryFails \in BOOLEAN :
         /\ results' = [techniques_processed |-> results.techniques_processed,
                        total_entities_created |-> results.total_entities_created,
                        errors |-> results.errors,
                        success |-> results.success,
                        radar_techniques_summary |->
                           get_radar_techniques_summary(Store, queryFails)]
         /\ log' = IF queryFails THEN Append(log, Event("summary_error")) ELSE log
    /\ pc' = "close"
    /\ UNCHANGED <<nodes, rels, last, technique_paths, idx, technique,
                   processed_data, ingest_results, fetched, outages,
                   calls,
                   index_page>>

\* finally: self.scraper.close(), then the summary is returned
Close ==
    /\ pc = "close"
    /\ log' = scraper_close(log)
    /\ pc' = "done"
    /\ UNCHANGED <<nodes, rels, last, technique_paths, idx, technique,
                   processed_data, ingest_results, results, fetched, outages,
                   calls,
                   index_page>>

\* run_single_technique(technique_name) up to the scrape
StartSingleTechnique ==
    /\ pc = "idle"
    /\ \E technique_name \in TechniqueNames :
         technique_paths' = <<SummaryPrefix \o technique_name>>
    /\ log' = <<Event("run_single_technique")>>
    /\ pc' = "single_scrape"
    /\ UNCHANGED <<nodes, rels, last, idx, technique, processed_data,
                   ingest_results, results, fetched, outages,
                   calls,
                   index_page>>

SingleScrape ==
    /\ pc = "single_scrape"
    /\ fetched' = Append(fetched, technique_paths[1])
    /\ calls' = Append(calls, Call("scrape_technique", technique_paths[1]))
    /\ \E t \in ScrapeOutcomes[technique_paths[1]] :
         /\ technique' = t
         /\ IF t.name = None
            THEN /\ results' = SingleFailure("Failed to scrape technique")
                 /\ pc' = "close"
            ELSE /\ pc' = "single_item"
                 /\ UNCHANGED results
    /\ UNCHANGED <<nodes, rels, last, technique_paths, idx, processed_data,
                   ingest_results, log, outages,
                   index_page>>

\* run_single_technique after a scrape that returned a technique
SingleHandle ==
    /\ pc = "single_item"
    /\ \E o \in ItemOutcomes(Store, technique, MaxOutages - outages) :
         /\ o.failures <= MaxOutages - outages
         /\ outages' = outages + o.failures
         /\ nodes' = o.S.nodes
         /\ rels' = o.S.rels
         /\ calls' = calls \o [k \in DOMAIN o.stages |->
                                  Call(o.stages[k], technique_paths[1])]
         /\ IF o.raised
            THEN /\ results' = SingleFailure("raised")
                 /\ log' = Append(log, Event("error"))
                 /\ UNCHANGED <<processed_data, ingest_results>>
            ELSE /\ processed_data' = o.batch
                 /\ ingest_results' = o.ingest_results
                 /\ results' = SingleSuccess(technique, o.ingest_results, o.radar_result)
                 /\ UNCHANGED log
    /\ pc' = "close"
    /\ UNCHANGED <<last, technique_paths, idx, technique, fetched,
                   index_page>>

NextRun ==
    \/ StartFullPipeline
    \/ ScrapeTechniquesList
    \/ ScrapeTechnique
    \/ HandleTechnique
    \/ Sleep
    \/ Summarise
    \/ Close
    \/ StartSingleTechnique
    \/ SingleScrape
    \/ SingleHandle

SpecRun == InitRun /\ [][NextRun]_vars

-----------------------------------------------------------------------------
(* The radar routes of the API *)

\* RadarPipelineOrchestrator(): the scraper opens its HTTP client, then the
\* ingestor asks for the store connection, which can raise
Orchestrator(connectFails) ==
    [events |-> <<Event("open")>>, raised |-> connectFails]

\* run_single_technique as one call: every result it can return from store S,
\* with the store it leaves; the finally clause closes the scraper.  Every
\* item of the batch is written; the MERGE of the technique node and the
\* linking query may fail
run_single_technique(S, technique_name, events) ==
    LET technique_path == SummaryPrefix \o technique_name
        scraped(t) ==
            IF t.name = None
            THEN {[S |-> S,
                   result |-> SingleFailure("Failed to scrape technique: "
                                              \o technique_name)]}
            ELSE {[S |-> o.S,
                   result |-> IF o.raised
                              THEN SingleFailure(ExceptionText)
                              ELSE SingleSuccess(t, o.ingest_results, o.radar_result)] :
                    o \in ItemOutcomes(S, t, 0)}
    IN  {[S |-> r.S, result |-> r.result, events |-> scraper_close(events)] :
           r \in UNION {scraped(t) : t \in ScrapeOutcomes[technique_path]}}

\* str(e) of an HTTPException: "<status>: <detail>" where Starlette defines
\* __str__, the empty string where it does not
HTTPExceptionStr(status, detail) == {"", status \o ": " \o detail}

\* "except HTTPException: raise" missing: the handler's own client error is
\* caught by "except Exception" and answered as a 500 with detail str(e)
AsServerError(status, detail, cause) ==
    {Response(500, text, cause, None) : text \in HTTPExceptionStr(status, detail)}

\* "except HTTPException: raise" before "except Exception": the client error
\* leaves the handler as it was raised
Reraised(status, detail, cause) ==
    {Response(IF status = "400" THEN 400 ELSE 404, detail, cause, None)}

\* POST /radar/ingest/{technique_name}: the 400 of a failed ingestion is raised
\* inside the try block, whose only except clause is "except Exception"
ingest_technique(S, technique_name, connectFails) ==
    LET orchestrator == Orchestrator(connectFails)
    IN  IF orchestrator.raised
        THEN {[S |-> S, events |-> orchestrator.events,
               response |-> Response(500, ExceptionText, "internal", ExceptionText)]}
        ELSE UNION {
               IF r.result.success
               THEN {[S |-> r.S, events |-> r.events,
                      response |-> Response(200, "", "none", None)]}
               ELSE {[S |-> r.S, events |-> r.events, response |-> resp] :
                       resp \in AsServerError("400",
                                              "Failed to ingest technique: "
                                                \o r.result.error,
                                              "ingest_failed")} :
               r \in run_single_technique(S, technique_name, orchestrator.events)}

\* GET /radar/status: get_pipeline_status catches its exceptions, and
\* get_radar_techniques_summary returns [] when its query raises
get_radar_status(S, connectFails, queryFails) ==
    LET orchestrator == Orchestrator(connectFails)
    IN  IF orchestrator.raised
        THEN [events |-> orchestrator.events,
              response |-> Response(500, ExceptionText, "internal", ExceptionText),
              total_radar_techniques |-> 0]
        ELSE [events |-> orchestrator.events,
              response |-> Response(200, "", IF queryFails THEN "internal" ELSE "none",
                                    IF queryFails THEN ExceptionText ELSE None),
              total_radar_techniques |->
                  Cardinality(get_radar_techniques_summary(S, queryFails))]

\* GET /radar/techniques
get_radar_techniques(S, connectFails, queryFails) ==
    LET orchestrator == Orchestrator(connectFails)
    IN  IF orchestrator.raised
        THEN [events |-> orchestrator.events,
              response |-> Response(500, ExceptionText, "internal", ExceptionText),
              techniques |-> {}]
        ELSE [events |-> orchestrator.events,
              response |-> Response(200, "", IF queryFails THEN "internal" ELSE "none",
                                    IF queryFails THEN ExceptionText ELSE None),
              techniques |-> get_radar_techniques_summary(S, queryFails)]

\* PUT /radar/techniques/{technique_name}/ring: 400 for a ring outside the four
\* before anything is constructed, 404 when the ingestor returns False
update_technique_ring(S, technique_name, new_ring, connectFails, queryFails) ==
    IF new_ring \notin Rings
    THEN [S |-> S, events |-> <<>>,
          response |-> CHOOSE resp \in Reraised("400", "Invalid ring. Must be one of: "
                                                  \o "Adopt, Trial, Assess, Hold",
                                                "invalid_ring") : TRUE]
    ELSE LET orchestrator == Orchestrator(connectFails)
             u == update_radar_technique_ring(S, technique_name, new_ring, queryFails)
         IN  IF orchestrator.raised
             THEN [S |-> S, events |-> orchestrator.events,
                   response |-> Response(500, ExceptionText, "internal", ExceptionText)]
             ELSE IF u.result
             THEN [S |-> u.S, events |-> orchestrator.events,
                   response |-> Response(200, "", "none", None)]
             ELSE [S |-> u.S, events |-> orchestrator.events,
                   response |-> CHOOSE resp \in
                       Reraised("404", "Technique '" \o technique_name \o "' not found",
                                IF queryFails THEN "internal" ELSE "not_found") : TRUE]

\* the technique asked for by the ingest route, while no technique is stored
RouteTechniqueNames == {"fuzz-testing"}

IngestTechnique ==
    \E technique_name \in RouteTechniqueNames, connectFails \in BOOLEAN :
        \E h \in ingest_technique(Store, technique_name, connectFails) :
            /\ NodesOfLabel(Store, "RadarTechnique") = {}
            /\ WithinBounds(Store)
            /\ nodes' = h.S.nodes
            /\ rels' = h.S.rels
            /\ last' = [op |-> "ingest_technique", arg |-> technique_name,
                        response |-> h.response]
            /\ log' = h.events
            /\ UNCHANGED <<pc, technique_paths, idx, technique, processed_data,
                           ingest_results, results, fetched, calls, index_page,
                           outages>>

GetRadarStatus ==
    \E connectFails \in BOOLEAN, queryFails \in BOOLEAN :
        LET h == get_radar_status(Store, connectFails, queryFails)
        IN  /\ last' = [op |-> "get_radar_status",
                        total_radar_techniques |-> h.total_radar_techniques,
                        response |-> h.response]
            /\ log' = h.events
            /\ UNCHANGED <<nodes, rels, pc, technique_paths, idx, technique,
                           processed_data, ingest_results, results, fetched, calls,
                           index_page, outages>>

GetRadarTechniques ==
    \E connectFails \in BOOLEAN, queryFails \in BOOLEAN :
        LET h == get_radar_techniques(Store, connectFails, queryFails)
        IN  /\ last' = [op |-> "get_radar_techniques", techniques |-> h.techniques,
                        response |-> h.response]
            /\ log' = h.events
            /\ UNCHANGED <<nodes, rels, pc, technique_paths, idx, technique,
                           processed_data, ingest_results, results, fetched, calls,
                           index_page, outages>>

\* the names asked for by the ring route: the name the ingest route stores and
\* one that is never stored; the rings asked for: one of the four and one that
\* is no ring
RingRouteNames == {"Fuzz Testing", "Threat Modeling"}

RingRouteArguments == {"Hold", "Retire"}

UpdateTechniqueRing ==
    \E technique_name \in RingRouteNames, new_ring \in RingRouteArguments,
       connectFails \in BOOLEAN, queryFails \in BOOLEAN :
        LET h == update_technique_ring(Store, technique_name, new_ring,
                                       connectFails, queryFails)
        IN  /\ datetime(Store) <= MaxTime
            /\ nodes' = h.S.nodes
            /\ rels' = h.S.rels
            /\ last' = [op |-> "update_technique_ring", arg |-> technique_name,
                        new_ring |-> new_ring, response |-> h.response]
            /\ log' = h.events
            /\ UNCHANGED <<pc, technique_paths, idx, technique, processed_data,
                           ingest_results, results, fetched, calls, index_page,
                           outages>>

NextApi ==
    \/ GetMethodology
    \/ DeleteMethodology
    \/ IngestTechnique
    \/ GetRadarStatus
    \/ GetRadarTechniques
    \/ UpdateTechniqueRing

\* the requests arrive at an empty store or at one seeded with a methodology
SpecApi == InitRun /\ [][NextApi]_vars

-----------------------------------------------------------------------------
(* The two scraper calls on their own *)

\* a name one character longer than RadarTechnique allows
LongNamePath == SummaryPrefix \o Lower(NameOfLen(NameMaxLen + 1))

\* paths: four slugs, a path without a last segment, a slug that is too long
ScrapePaths == {FuzzPath, GatesPath, ChaosPath, ReviewPath, SummaryPrefix, LongNamePath}

\* pages: a failed fetch, a full page, a description under 10 characters, no
\* description, an empty description, no ring, and two pages with a heading
ScrapePages ==
    {FailedPage,
     Page(DescFuzz, "Trial"),
     Page("Too short", "Hold"),
     Page(None, None),
     Page("", "Adopt"),
     Page(DescShort, None),
     [Page(None, None) EXCEPT !.title = "Quality Gates"],
     [Page(DescThreat, "Adopt") EXCEPT !.title = "Threat Modeling"]}

InitScrape ==
    /\ StoreInit
    /\ pc = "request"
    /\ index_page \in ScrapePages \cup RunIndexPages
    /\ technique_paths \in {<<path>> : path \in ScrapePaths}
    /\ idx = 0
    /\ technique = NoTechnique
    /\ processed_data = EmptyBatch
    /\ ingest_results = NewResults
    /\ results = [success |-> TRUE]
    /\ fetched = <<>>
    /\ log = <<>>
    /\ calls = <<>>
    /\ outages = 0

\* scraper.scrape_technique(path) when the site answers with the page of the state
ScrapeOne ==
    /\ pc = "request"
    /\ index_page \in ScrapePages
    /\ technique' = scrape_technique(technique_paths[1], index_page)
    /\ fetched' = <<technique_paths[1]>>
    /\ pc' = "scraped"
    /\ UNCHANGED <<nodes, rels, last, technique_paths, idx, processed_data,
                   ingest_results, results, log, calls, index_page, outages>>

\* scraper.scrape_techniques_list() when the site answers with the page of the state
ListOne ==
    /\ pc = "request"
    /\ index_page \in RunIndexPages
    /\ technique_paths' \in scrape_techniques_list(index_page)
    /\ pc' = "listed"
    /\ UNCHANGED <<nodes, rels, last, idx, technique, processed_data,
                   ingest_results, results, fetched, log, calls, index_page,
                   outages>>

NextScrape ==
    \/ ScrapeOne
    \/ ListOne

SpecScrape == InitScrape /\ [][NextScrape]_vars

-----------------------------------------------------------------------------
(* scrape_techniques_list on its own *)

MaxLinks == 5    \* <a href> elements of an index page

Hrefs == {FuzzPath, ThreatPath, ChaosPath, AbsoluteFuzzPath, RadarHome}

RECURSIVE SeqsUpTo(_, _)
SeqsUpTo(S, n) ==
    IF n = 0 THEN {<<>>}
    ELSE LET shorter == SeqsUpTo(S, n - 1)
         IN  shorter \cup {Append(seq, x) : seq \in {q \in shorter : Len(q) = n - 1},
                                              x \in S}

ListIndexPages == {FailedPage} \cup {IndexPage(hrefs) : hrefs \in SeqsUpTo(Hrefs, MaxLinks)}

InitList ==
    /\ StoreInit
    /\ pc = "index"
    /\ index_page \in ListIndexPages
    /\ technique_paths = <<>>
    /\ idx = 0
    /\ technique = NoTechnique
    /\ processed_data = EmptyBatch
    /\ ingest_results = NewResults
    /\ results = [success |-> TRUE]
    /\ fetched = <<>>
    /\ log = <<>>
    /\ calls = <<>>
    /\ outages = 0

\* scraper.scrape_techniques_list() on the index page of the state
ListTechniques ==
    /\ pc = "index"
    /\ technique_paths' \in scrape_techniques_list(index_page)
    /\ pc' = "listed"
    /\ UNCHANGED <<nodes, rels, last, idx, technique, processed_data,
                   ingest_results, results, fetched, log, calls, index_page,
                   outages>>

NextList == ListTechniques

SpecList == InitList /\ [][NextList]_vars

-----------------------------------------------------------------------------
(* The constructors of the create-requests on their own *)

MaxMargin == 2    \* how far past each end of a range the inputs go

YearsTried ==
    ((YearMin - MaxMargin)..(YearMin + MaxMargin))
    \cup ((YearMax - MaxMargin)..(YearMax + MaxMargin))

\* credibility scores in tenths: around both ends, and -1.0, 5.5, 11.0
ScoresTried ==
    ((CredibilityMin - MaxMargin)..(CredibilityMin + MaxMargin))
    \cup ((CredibilityMax - MaxMargin)..(CredibilityMax + MaxMargin))
    \cup {CredibilityMin - 10, 55, CredibilityMax + 10}

MethodologyCreateCalls ==
    {[name |-> n] : n \in {"Test", ""}}
    \cup {[name |-> n, year_created |-> y] : n \in {"Test", ""}, y \in YearsTried}

EvidenceCreateCalls ==
    {[name |-> "test", title |-> t] : t \in {"Test", ""}}
    \cup {[name |-> "test", title |-> t, credibility_score |-> c] :
            t \in {"Test", ""}, c \in ScoresTried}

RuleCreateCalls ==
    {[name |-> "test-rule", title |-> t, detail |-> "Test detail",
      practice_name |-> "Test Practice"] : t \in {"Test Rule", ""}}
    \cup {[name |-> "test-rule", title |-> t, detail |-> "Test detail",
           practice_name |-> "Test Practice", priority |-> p] :
            t \in {"Test Rule", ""}, p \in {"low", "medium", "high", "critical"}}

ConstructorCalls ==
    {[op |-> "call", model |-> "MethodologyCreate", fields |-> f] :
        f \in MethodologyCreateCalls}
    \cup {[op |-> "call", model |-> "EvidenceCreate", fields |-> f] :
            f \in EvidenceCreateCalls}
    \cup {[op |-> "call", model |-> "RuleCreate", fields |-> f] :
            f \in RuleCreateCalls}

InitValidate ==
    /\ nodes = EmptyStore.nodes
    /\ rels = EmptyStore.rels
    /\ last \in ConstructorCalls
    /\ pc = "call"
    /\ technique_paths = <<>>
    /\ idx = 0
    /\ technique = NoTechnique
    /\ processed_data = EmptyBatch
    /\ ingest_results = NewResults
    /\ results = [success |-> TRUE]
    /\ fetched = <<>>
    /\ log = <<>>
    /\ calls = <<>>
    /\ index_page = NoPage
    /\ outages = 0

\* the constructor call of the state: the model or ValidationError
Construct ==
    /\ pc = "call"
    /\ last' = [op |-> last.model,
                fields |-> last.fields,
                result |-> CASE last.model = "MethodologyCreate" ->
                                  MethodologyCreate(last.fields)
                             [] last.model = "EvidenceCreate" ->
                                  EvidenceCreate(last.fields)
                             [] OTHER -> RuleCreate(last.fields)]
    /\ pc' = "constructed"
    /\ UNCHANGED <<nodes, rels, technique_paths, idx, technique, processed_data,
                   ingest_results, results, fetched, log, calls, index_page,
                   outages>>

NextValidate == Construct

SpecValidate == InitValidate /\ [][NextValidate]_vars

-----------------------------------------------------------------------------
(* Properties of the orchestrator *)

FullRun == log # <<>> /\ log[1].event = "run_full_pipeline"

SingleRun == log # <<>> /\ log[1].event = "run_single_technique"

\* C5: in a run of run_full_pipeline, whether the paths were given or listed, the
\* paths fetched so far are the first paths of the list, in order, and never more
\* than 5 of them; techniques_processed never exceeds 5 nor the number of paths.
C5_AtMostFivePaths ==
    FullRun
    => /\ Len(fetched) <= PathCeiling
       /\ Len(fetched) <= Len(technique_paths)
       /\ fetched = SubSeq(technique_paths, 1, Len(fetched))
       /\ results.techniques_processed <= PathCeiling
       /\ results.techniques_processed <= Len(technique_paths)

\* a finished run over more than 5 paths: exactly the first 5 were fetched and
\* all 5 were handled
C5_Witness ==
    /\ FullRun
    /\ pc = "done"
    /\ Len(technique_paths) > PathCeiling
    /\ Len(fetched) = PathCeiling
    /\ results.techniques_processed + Len(SelectSeq(results.errors,
            LAMBDA e : e.what = "technique")) = PathCeiling

AbsentScrapeStep ==
    /\ FullRun
    /\ pc = "loop"
    /\ idx' = idx + 1
    /\ technique'.name = None

\* C10 (as amended): in run_full_pipeline an absent scrape is logged as a warning
\* and nothing else: the summary (errors, success, counters) is left as it was,
\* and the run goes on with the next path; a finished run has fetched every one
\* of the first 5 paths, whichever of them came back absent.
C10_AbsentStep ==
    AbsentScrapeStep
    => /\ results' = results
       /\ log' = Append(log, Event("warning"))
       /\ pc' = "loop"

C10_AllFetched ==
    (FullRun /\ pc = "done")
    => fetched = technique_paths_limited(technique_paths)

C10_AbsentRecordedStep ==
    AbsentScrapeStep
    => /\ Len(results'.errors) = Len(results.errors) + 1
       /\ pc' = "loop"

Closes == Len(SelectSeq(log, LAMBDA e : e.event = "close"))

ItemErrors == Len(SelectSeq(log, LAMBDA e : e.event = "error"))

AllItemsHandled ==
    /\ Len(fetched) = Len(technique_paths_limited(technique_paths))
    /\ pc \notin {"item", "sleep"}

\* C11: every run of run_full_pipeline closes the scraper's HTTP client exactly
\* once: the client is open for as long as the run has not returned, and a run
\* that has returned, on whatever path (normal completion, an item that raised, a
\* list fetch or a summary query that failed), closed it once, as its last step,
\* after every item was handled and the summary was filled in.
C11_ScraperClosedOnce ==
    FullRun
    => /\ pc # "done" => Closes = 0
       /\ pc = "done" => /\ Closes = 1
                         /\ log[Len(log)] = Event("close")
                         /\ AllItemsHandled
                         /\ "radar_techniques_summary" \in DOMAIN results

\* a finished run in which one item raised and the summary query failed, closed
\* once
C11_Witness ==
    /\ FullRun
    /\ pc = "done"
    /\ ItemErrors >= 1
    /\ \E i \in DOMAIN log : log[i] = Event("summary_error")
    /\ Closes = 1

\* a finished run whose list fetch failed, closed once
C11_WitnessListFailed ==
    /\ FullRun
    /\ pc = "done"
    /\ \E i \in DOMAIN log : log[i] = Event("list_error")
    /\ Closes = 1

\* the fetch of an item that is not the first of its run
NextItemFetch ==
    /\ FullRun
    /\ fetched # <<>>
    /\ Len(fetched') = Len(fetched) + 1

SleepEvent == [event |-> "sleep", seconds |-> SleepSeconds]

\* C12: in a run of run_full_pipeline the page of an item that is not the first
\* is fetched only right after a sleep of 2 seconds, whatever became of the
\* item before it (ingested, absent scrape, or raised).
C12_SleepBetweenItems ==
    [][NextItemFetch => log # <<>> /\ log[Len(log)] = SleepEvent]_vars

\* the stages of one item in the order of the loop body
StageOrder ==
    <<"scrape_technique", "process_radar_technique", "ingest_processed_data",
      "ingest_radar_technique_direct">>

StageNo(stage) == CHOOSE n \in DOMAIN StageOrder : StageOrder[n] = stage

\* the item a call belongs to: the number of scrapes up to and including it
ItemOf(k) == Cardinality({j \in 1..k : calls[j].stage = StageOrder[1]})

\* the calls made for the paths fetched so far, item by item: every item starts
\* with its scrape and goes through the stages in order, up to the stage at
\* which it ended or was abandoned
CallsItemByItem ==
    /\ ItemOf(Len(calls)) = Len(fetched)
    /\ \A k \in DOMAIN calls :
         /\ ItemOf(k) >= 1
         /\ calls[k].path = fetched[ItemOf(k)]
         /\ \/ calls[k].stage = StageOrder[1]
            \/ /\ k > 1
               /\ StageNo(calls[k].stage) = StageNo(calls[k - 1].stage) + 1

\* C13: in one run the techniques are handled one after another and in list
\* order: the i-th fetch is of the i-th path of the list, the calls of the run
\* are those of item 1, then those of item 2, and so on, each item going through
\* scrape, process, ingest_processed_data, ingest_radar_technique_direct in that
\* order until it is finished or abandoned; the run is at one position at a
\* time, so that no two calls are in progress together.
C13_SequentialInListOrder ==
    (FullRun \/ SingleRun)
    => /\ fetched = SubSeq(technique_paths, 1, Len(fetched))
       /\ CallsItemByItem

\* a finished run over three paths: one item went through all four stages, one
\* was abandoned in the processor and one at the scrape
C13_Witness ==
    /\ FullRun
    /\ pc = "done"
    /\ Len(fetched) >= 3
    /\ \E i, j, k \in 1..Len(fetched) :
         /\ Call("ingest_radar_technique_direct", fetched[i]) \in Range(calls)
         /\ Call("process_radar_technique", fetched[j]) \in Range(calls)
         /\ Call("ingest_processed_data", fetched[j]) \notin Range(calls)
         /\ Call("process_radar_technique", fetched[k]) \notin Range(calls)

\* the hyperlink targets of the index page that hold the technique-summary path
TechniqueLinks ==
    {index_page.hrefs[i] : i \in {j \in DOMAIN index_page.hrefs :
                                     Contains(SummaryPrefix, index_page.hrefs[j])}}

\* C15: the list scrape_techniques_list returns for an index page holds every
\* hyperlink target that matches the technique-summary path once and nothing
\* else: no element twice, and as a set the matching targets of the page.
C15_ListDeduplicated ==
    (pc = "listed" /\ index_page.ok)
    => /\ \A i, j \in DOMAIN technique_paths :
            technique_paths[i] = technique_paths[j] => i = j
       /\ Range(technique_paths) = TechniqueLinks

\* an index page of 5 matching links, 3 of them distinct and 2 repeated: 3 paths
C15_Witness ==
    /\ pc = "listed"
    /\ index_page.ok
    /\ Len(index_page.hrefs) = 5
    /\ \A i \in DOMAIN index_page.hrefs : Contains(SummaryPrefix, index_page.hrefs[i])
    /\ Cardinality(Range(index_page.hrefs)) = 3
    /\ Len(technique_paths) = 3

-----------------------------------------------------------------------------
(* Properties of the create-requests *)

ConstructedAs(model) == pc = "constructed" /\ last.op = model

\* C16: the ranges of the create-requests include their ends: MethodologyCreate
\* raises for a year_created below 1900 or above 2030 and accepts 1900, 2030 and
\* the years between; EvidenceCreate raises for a credibility_score below 0.0 or
\* above 10.0 and accepts 0.0, 10.0 and the scores between; both accept a
\* request that leaves the value out (the other fields being valid).
C16_InclusiveRanges ==
    /\ (ConstructedAs("MethodologyCreate") /\ last.fields.name # "")
       => (last.result.raised
           <=> /\ "year_created" \in DOMAIN last.fields
               /\ \/ last.fields.year_created < 1900
                  \/ last.fields.year_created > 2030)
    /\ (ConstructedAs("EvidenceCreate") /\ last.fields.title # "")
       => (last.result.raised
           <=> /\ "credibility_score" \in DOMAIN last.fields
               /\ \/ last.fields.credibility_score < 0
                  \/ last.fields.credibility_score > 100)

\* a Methodology create-request with year_created 2030 was accepted
C16_Witness ==
    /\ ConstructedAs("MethodologyCreate")
    /\ "year_created" \in DOMAIN last.fields
    /\ last.fields.year_created = 2030
    /\ ~last.result.raised
    /\ last.result.model.year_created = 2030

\* an Evidence create-request with credibility_score 0.0 was accepted, one with
\* 10.1 was not (reached in other states of the same specification)
C16_WitnessEvidence ==
    /\ ConstructedAs("EvidenceCreate")
    /\ "credibility_score" \in DOMAIN last.fields
    /\ last.fields.credibility_score = 0
    /\ ~last.result.raised

\* C17: a Rule create-request built without a priority has priority "medium";
\* one built with a priority keeps it.
C17_DefaultPriority ==
    (ConstructedAs("RuleCreate") /\ ~last.result.raised)
    => last.result.model.priority =
          IF "priority" \in DOMAIN last.fields THEN last.fields.priority
          ELSE "medium"

\* a Rule create-request built without a priority was accepted
C17_Witness ==
    /\ ConstructedAs("RuleCreate")
    /\ "priority" \notin DOMAIN last.fields
    /\ ~last.result.raised
    /\ last.result.model.priority = "medium"

-----------------------------------------------------------------------------
(* Properties of the ingestor and of the repositories *)

StoreNext == [nodes |-> nodes', rels |-> rels']

Count(S, label, name) == Cardinality(MatchNodes(S, label, name))

NamesIn(S) == {id[2] : id \in DOMAIN S.nodes}

NewNodes(label) == NodesOfLabel(StoreNext, label) \ NodesOfLabel(Store, label)

\* C1: when ingest_processed_data(process(t)) runs twice in a row (no other
\* operation in between, the store not failing in the first run), the second run
\* leaves the number of Methodology, Practice and Rule nodes of every name as the
\* first run left it.
C1_SecondRunStep ==
    (last'.op = "ingest_processed_data" /\ last'.repeat)
    => \A label \in {"Methodology", "Practice", "Rule"} :
         \A name \in NamesIn(Store) \cup NamesIn(StoreNext) :
            Count(StoreNext, label, name) = Count(Store, label, name)

C1_NoDuplicateOnSecondRun == [][C1_SecondRunStep]_vars

\* a second run in a row of the technique on which both mapping rules fire, with
\* its Methodology, both Practices and its Rule in the store and nothing created
C1_Witness ==
    /\ last.op = "ingest_processed_data"
    /\ last.repeat
    /\ last.arg = TFuzz
    /\ last.faults = {}
    /\ Count(Store, "Methodology", "Quality Assurance") = 1
    /\ Count(Store, "Practice", "Fuzz Testing Practice") = 1
    /\ Count(Store, "Practice", "Fuzz Testing") = 1
    /\ Count(Store, "Rule", "thoughtworks-fuzz-testing") = 1
    /\ last.results.methodologies_created = 0
    /\ last.results.practices_created = 0
    /\ last.results.rules_created = 0

\* C2: every ingest_processed_data call on a batch with an Evidence request (the
\* store not failing on it) creates one more Evidence node of that name and
\* reports evidence_created = 1.
C2_EvidenceStep ==
    (/\ last'.op = "ingest_processed_data"
     /\ Len(Processed[last'.arg].evidence) = 1
     /\ <<"evidence", 1>> \notin last'.faults)
    => LET name == Processed[last'.arg].evidence[1].name
       IN  /\ Count(StoreNext, "Evidence", name) = Count(Store, "Evidence", name) + 1
           /\ last'.results.evidence_created = 1

C2_EvidenceCreatedOnEveryRun == [][C2_EvidenceStep]_vars

ErrorsOf(res, what) ==
    Cardinality({k \in 1..Len(res.errors) : res.errors[k].what = what})

FaultsIn(faults, category) == Cardinality({f \in faults : f[1] = category})

\* the items of a batch in the order of the five loops
ItemsInOrder(batch) ==
    [k \in 1..Len(batch.methodologies) |-> <<"methodologies", k>>]
      \o [k \in 1..Len(batch.practices) |-> <<"practices", k>>]
      \o [k \in 1..Len(batch.rules) |-> <<"rules", k>>]
      \o [k \in 1..Len(batch.evidence) |-> <<"evidence", k>>]
      \o [k \in 1..Len(batch.connections) |-> <<"connections", k>>]

\* C7: ingest_processed_data attempts every item of the batch, in order, whatever
\* fails; every item the store fails on leaves an entry in errors; in each
\* category the created counter and the errors together never exceed the items;
\* a counter counts only items whose write reached the store.
C7_IngestStep ==
    last'.op = "ingest_processed_data"
    => LET batch == Processed[last'.arg]
           res == last'.results
           f == last'.faults
       IN  /\ last'.attempted = ItemsInOrder(batch)
           /\ ErrorsOf(res, "methodology") >= FaultsIn(f, "methodologies")
           /\ ErrorsOf(res, "practice") >= FaultsIn(f, "practices")
           /\ ErrorsOf(res, "rule") >= FaultsIn(f, "rules")
           /\ ErrorsOf(res, "evidence") >= FaultsIn(f, "evidence")
           /\ ErrorsOf(res, "connection") >= FaultsIn(f, "connections")
           /\ res.methodologies_created + ErrorsOf(res, "methodology")
                <= Len(batch.methodologies)
           /\ res.practices_created + ErrorsOf(res, "practice") <= Len(batch.practices)
           /\ res.rules_created + ErrorsOf(res, "rule") <= Len(batch.rules)
           /\ res.evidence_created + ErrorsOf(res, "evidence") <= Len(batch.evidence)
           /\ res.connections_created + ErrorsOf(res, "connection")
                <= Len(batch.connections)
           /\ res.methodologies_created = Cardinality(NewNodes("Methodology"))
           /\ res.practices_created <= Cardinality(NewNodes("Practice"))
           /\ res.rules_created <= Cardinality(NewNodes("Rule"))
           /\ res.evidence_created = Cardinality(NewNodes("Evidence"))
           /\ res.connections_created <= Cardinality(rels' \ rels)

C7_BestEffortBatch == [][C7_IngestStep]_vars

\* a batch whose practice write raised (the store failed on it), whose rule then
\* failed for want of its practice, and whose evidence was still created
C7_Witness ==
    /\ last.op = "ingest_processed_data"
    /\ last.arg = TChaos
    /\ last.faults = {<<"practices", 1>>}
    /\ ErrorsOf(last.results, "practice") = 1
    /\ ErrorsOf(last.results, "rule") = 1
    /\ ErrorsOf(last.results, "connection") = 1
    /\ last.results.evidence_created = 1
    /\ Len(last.attempted) = 4

\* C8: PracticeRepository.create with a methodology_name no Methodology node has,
\* and RuleRepository.create with a practice_name no Practice node has, raise
\* ("Failed to create ...") and leave nodes and relationships as they were.
C8_MissingParentStep ==
    /\ (/\ last'.op = "PracticeRepository.create"
        /\ MatchNodes(Store, "Methodology", last'.arg.methodology_name) = {})
       => (last'.raised /\ nodes' = nodes /\ rels' = rels)
    /\ (/\ last'.op = "RuleRepository.create"
        /\ MatchNodes(Store, "Practice", last'.arg.practice_name) = {})
       => (last'.raised /\ nodes' = nodes /\ rels' = rels)

C8_MissingParentWritesNothing == [][C8_MissingParentStep]_vars

\* a Practice create that raised for want of its Methodology, in a store that
\* holds other nodes
C8_Witness ==
    /\ last.op = "PracticeRepository.create"
    /\ last.raised
    /\ MatchNodes(Store, "Methodology", last.arg.methodology_name) = {}
    /\ DOMAIN nodes # {}

\* C6: the delete route removes every Methodology node of the name with every
\* relationship at it and answers 204; when no node has the name the store is
\* left as it was and the answer is 404 (the repository returned False).
C6_DeleteStep ==
    (last'.op = "delete_methodology" /\ ~last'.raised)
    => LET ms == MatchNodes(Store, "Methodology", last'.arg)
       IN  IF ms # {}
           THEN /\ last'.status = 204
                /\ DOMAIN nodes' = DOMAIN nodes \ ms
                /\ \A id \in DOMAIN nodes' : nodes'[id] = nodes[id]
                /\ rels' = {r \in rels : r.from \notin ms /\ r.to \notin ms}
           ELSE /\ last'.status = 404
                /\ nodes' = nodes
                /\ rels' = rels

C6_DeleteMethodology == [][C6_DeleteStep]_vars

\* a successful delete that took a has-practice relationship with it: a Practice
\* is left without a Methodology
C6_Witness ==
    /\ last.op = "delete_methodology"
    /\ last.status = 204
    /\ MatchNodes(Store, "Methodology", last.arg) = {}
    /\ \E p \in NodesOfLabel(Store, "Practice") :
          \A r \in rels : ~(r.type = "HAS_PRACTICE" /\ r.to = p)

\* C3: the store never holds two RadarTechnique nodes of one name, and a
\* RadarTechnique node changes only in an ingest_radar_technique_direct call for
\* its name that reached the store, which leaves it with exactly the quadrant,
\* ring, movement, description, volume, edition_date and source_url of that call.
C3_AtMostOnePerName ==
    \A id \in NodesOfLabel(Store, "RadarTechnique") :
        Count(Store, "RadarTechnique", id[2]) = 1

C3_UpsertStep ==
    \A id \in NodesOfLabel(StoreNext, "RadarTechnique") :
        IF /\ last'.op = "ingest_radar_technique_direct"
           /\ ~last'.raised
           /\ id[2] = last'.arg.name
        THEN [f \in DOMAIN RadarProps(last'.arg) |-> nodes'[id][f]]
                 = RadarProps(last'.arg)
        ELSE id \in DOMAIN nodes /\ nodes'[id] = nodes[id]

C3_UpsertByName == []C3_AtMostOnePerName /\ [][C3_UpsertStep]_vars

\* "Fuzz Testing" ingested again with another description: one node, the latest
\* description
C3_Witness ==
    /\ last.op = "ingest_radar_technique_direct"
    /\ ~last.raised
    /\ last.arg.name = "Fuzz Testing"
    /\ last.replaced # {}
    /\ last.arg.description \notin last.replaced
    /\ Count(Store, "RadarTechnique", "Fuzz Testing") = 1
    /\ \A id \in MatchNodes(Store, "RadarTechnique", "Fuzz Testing") :
          nodes[id].description = last.arg.description

SupportedBy(R) == {r \in R : r.type = "SUPPORTED_BY"}

\* an ingest_processed_data call on which the store did not fail
IngestStepNoFault ==
    /\ last'.op = "ingest_processed_data"
    /\ last'.faults = {}

\* C19: when rule B fires on a technique and rule A does not, and the store has
\* no Practice named "<technique name> Practice", ingesting the batch creates
\* the Practice named as the technique, no Rule node and no SUPPORTED_BY
\* relationship; the rule and the connection each leave one entry in errors and
\* rules_created is 0.
C19_RuleBOnlyStep ==
    (/\ IngestStepNoFault
     /\ RuleBFires(last'.arg) /\ ~RuleAFires(last'.arg)
     /\ Count(Store, "Practice", last'.arg.name \o " Practice") = 0)
    => /\ Count(StoreNext, "Practice", last'.arg.name) >= 1
       /\ NewNodes("Rule") = {}
       /\ SupportedBy(rels') = SupportedBy(rels)
       /\ ErrorsOf(last'.results, "rule") = 1
       /\ ErrorsOf(last'.results, "connection") = 1
       /\ last'.results.rules_created = 0

C19_RuleBOnly == [][C19_RuleBOnlyStep]_vars

\* the connection of the batch of an ingest_processed_data call
ConnectionOf(t) == Processed[t].connections[1]

\* C20: in an ingest_processed_data call on which the store does not fail, the
\* SUPPORTED_BY connection of the batch is written only between endpoints that
\* exist: if the Rule or the Evidence it names is not in the store, no
\* SUPPORTED_BY relationship is added, the connection leaves one entry in errors
\* and is not counted, and the nodes the earlier loops created stay; if both
\* exist, a SUPPORTED_BY relationship from the rule to the evidence is there
\* afterwards and the connection is counted.
C20_ConnectionStep ==
    IngestStepNoFault
    => LET c == ConnectionOf(last'.arg)
           rs == MatchNodes(StoreNext, "Rule", c.from_name)
           es == MatchNodes(StoreNext, "Evidence", c.to_name)
           res == last'.results
       IN  IF rs = {} \/ es = {}
           THEN /\ SupportedBy(rels') = SupportedBy(rels)
                /\ ErrorsOf(res, "connection") = 1
                /\ res.connections_created = 0
                /\ res.evidence_created = Cardinality(NewNodes("Evidence"))
                /\ res.rules_created <= Cardinality(NewNodes("Rule"))
                /\ DOMAIN nodes \subseteq DOMAIN nodes'
           ELSE /\ \E r \in SupportedBy(rels') : r.from \in rs /\ r.to \in es
                /\ \A r \in SupportedBy(rels') \ SupportedBy(rels) :
                     r.from \in rs /\ r.to \in es
                /\ ErrorsOf(res, "connection") = 0
                /\ res.connections_created = 1

C20_SupportedByEndpoints == [][C20_ConnectionStep]_vars

\* a batch whose Evidence was created while its Rule was not (no parent
\* Practice): no SUPPORTED_BY relationship, one connection error
C20_Witness ==
    /\ last.op = "ingest_processed_data"
    /\ last.faults = {}
    /\ last.results.evidence_created = 1
    /\ MatchNodes(Store, "Rule", ConnectionOf(last.arg).from_name) = {}
    /\ ErrorsOf(last.results, "connection") = 1
    /\ last.results.connections_created = 0
    /\ SupportedBy(rels) = {}

\* a batch whose Rule and Evidence both exist: the relationship is there
C20_WitnessLinked ==
    /\ last.op = "ingest_processed_data"
    /\ last.faults = {}
    /\ last.results.connections_created = 1
    /\ \E r \in SupportedBy(rels) :
         /\ r.from \in MatchNodes(Store, "Rule", ConnectionOf(last.arg).from_name)
         /\ r.to \in MatchNodes(Store, "Evidence", ConnectionOf(last.arg).to_name)

-----------------------------------------------------------------------------
(* Properties of the ring of a RadarTechnique node *)

C30_UpdateStep ==
    last'.op = "update_radar_technique_ring" =>
        LET ms == MatchNodes(Store, "RadarTechnique", last'.arg)
        IN  /\ last'.result = (~last'.raised /\ ms # {})
            /\ rels' = rels
            /\ DOMAIN nodes' = DOMAIN nodes
            /\ \A id \in DOMAIN nodes :
                 IF id \in ms /\ ~last'.raised
                 THEN /\ nodes'[id] = [nodes[id] EXCEPT
                                         !.ring = last'.new_ring,
                                         !.updated_at = nodes'[id].updated_at]
                      /\ nodes'[id].updated_at > nodes[id].updated_at
                 ELSE nodes'[id] = nodes[id]

C30_IngestStep ==
    (last'.op = "ingest_radar_technique_direct" /\ ~last'.raised) =>
        \A id \in MatchNodes(StoreNext, "RadarTechnique", last'.arg.name) :
            /\ [f \in DOMAIN RadarProps(last'.arg) |-> nodes'[id][f]]
                 = RadarProps(last'.arg)
            /\ DOMAIN nodes'[id]
                 = DOMAIN RadarProps(last'.arg) \cup {"created_at", "updated_at"}
            /\ nodes'[id].created_at = nodes'[id].updated_at
            /\ \A b \in last'.before :
                 /\ nodes'[id].created_at > b.created_at
                 /\ nodes'[id].created_at > b.updated_at

C30_OtherStep ==
    \A id \in NodesOfLabel(Store, "RadarTechnique") :
        \/ last'.op = "update_radar_technique_ring" /\ last'.arg = id[2]
        \/ last'.op = "ingest_radar_technique_direct" /\ last'.arg.name = id[2]
        \/ id \in DOMAIN nodes' /\ nodes'[id] = nodes[id]

\* C30: update_radar_technique_ring(n, r) whose query does not raise returns
\* true exactly when a node is named n, and then changes only the ring (to r)
\* and updated_at (to a later time) of that node; it returns false and changes
\* nothing when no node is named n or the query raises.  A later
\* ingest_radar_technique_direct(t) with t.name = n leaves the node with the
\* ring and the other fields of t and with created_at and updated_at both set to
\* the time of the ingestion; no other call changes the node.
C30_RingUntilNextIngest ==
    /\ [][C30_UpdateStep]_vars
    /\ [][C30_IngestStep]_vars
    /\ [][C30_OtherStep]_vars

\* a technique ingested again after its ring had been updated to another ring
C30_Witness ==
    /\ last.op = "ingest_radar_technique_direct"
    /\ ~last.raised
    /\ \E b \in last.before :
         /\ b.updated_at > b.created_at
         /\ b.ring # last.arg.ring
         /\ b.ring \in Rings

\* an update that found its node, and one that found none
C30_WitnessUpdated ==
    /\ last.op = "update_radar_technique_ring"
    /\ last.result
    /\ \E id \in MatchNodes(Store, "RadarTechnique", last.arg) :
         nodes[id].ring = last.new_ring /\ nodes[id].updated_at > nodes[id].created_at

C30_WitnessNoNode ==
    /\ last.op = "update_radar_technique_ring"
    /\ ~last.raised
    /\ ~last.result
    /\ NodesOfLabel(Store, "RadarTechnique") # {}

-----------------------------------------------------------------------------
(* Properties of the links from a RadarTechnique node to Practice nodes *)

\* the first word of the name found in a text, letter case ignored
MentionsFirstWord(name, text) == Contains(Lower(FirstWord(name)), Lower(text))

PracticeMentions(props, name) ==
    \/ MentionsFirstWord(name, props.name)
    \/ MentionsFirstWord(name, props.description)
    \/ \E k \in 1..Len(props.tools) : MentionsFirstWord(name, props.tools[k])

C24_LinkStep ==
    (/\ last'.op = "ingest_radar_technique_direct"
     /\ last'.result.success
     /\ ~last'.linkFails) =>
        \A rt \in MatchNodes(StoreNext, "RadarTechnique", last'.arg.name),
           p \in NodesOfLabel(StoreNext, "Practice") :
            (RelsBetween(StoreNext, "INFLUENCES_PRACTICE", rt, p) # {})
                <=> PracticeMentions(nodes'[p], last'.arg.name)

C24_LinkFailureStep ==
    (last'.op = "ingest_radar_technique_direct" /\ last'.linkFails) =>
        last'.result.success

\* C24: after a successful ingest_radar_technique_direct(t) whose linking query
\* ran, the technique node has an INFLUENCES_PRACTICE relationship to exactly
\* the Practice nodes whose name, description or a tool contains the first word
\* of t.name, letter case ignored; a failing linking query leaves the call
\* successful.
C24_LinksByFirstWord ==
    /\ [][C24_LinkStep]_vars
    /\ [][C24_LinkFailureStep]_vars

-----------------------------------------------------------------------------
(* Properties of the nodes kept by the store *)

\* the has-practice relationships arriving at a Practice node from Methodology nodes
MethodologiesOf(S, p) ==
    {r \in S.rels : r.type = "HAS_PRACTICE" /\ r.to = p /\ r.from[1] = "Methodology"}

\* C25: in every reachable store state each Practice node has exactly one
\* incoming has-practice relationship from a Methodology node.
C25_OneMethodologyPerPractice ==
    \A p \in NodesOfLabel(Store, "Practice") :
        Cardinality(MethodologiesOf(Store, p)) = 1

C26_KeepStep ==
    \A id \in DOMAIN nodes :
        id[1] # "Methodology" => id \in DOMAIN nodes'

\* C26: no operation removes a Practice, Rule, Context, Evidence or
\* RadarTechnique node: every node that is not a Methodology node is still in
\* the store after every step.
C26_OnlyMethodologiesDisappear == [][C26_KeepStep]_vars

\* a Methodology deleted from a store that holds a Practice, a Rule and an
\* Evidence node
C26_Witness ==
    /\ last.op = "delete_methodology"
    /\ last.status = 204
    /\ NodesOfLabel(Store, "Practice") # {}
    /\ NodesOfLabel(Store, "Rule") # {}
    /\ NodesOfLabel(Store, "Evidence") # {}

\* C29: any Rule node and any Evidence node are joined by at most one
\* SUPPORTED_BY relationship, after any sequence of ingest_processed_data calls.
C29_OneSupportedByPerPair ==
    \A r \in NodesOfLabel(Store, "Rule"), e \in NodesOfLabel(Store, "Evidence") :
        Cardinality(RelsBetween(Store, "SUPPORTED_BY", r, e)) <= 1

-----------------------------------------------------------------------------
(* Properties of the scraper's failures *)

\* the return value is a technique record or None, never an exception
ReturnsTechniqueOrNone(value) ==
    /\ "raised" \notin DOMAIN value
    /\ value = NoTechnique \/ RadarTechniqueValid(value)

\* C22: scrape_technique returns None whenever the fetch, the parse or the
\* construction of the technique record fails, and a valid technique record or
\* None otherwise; scrape_techniques_list returns the empty list when the fetch
\* or the parse fails; neither lets an exception reach the caller.
C22_ScraperNeverRaises ==
    /\ pc = "scraped" =>
         /\ ReturnsTechniqueOrNone(technique)
         /\ scrape_technique_try(fetched[1], index_page).raised => technique = NoTechnique
    /\ pc = "listed" =>
         /\ DOMAIN technique_paths = 1..Len(technique_paths)
         /\ ~index_page.ok => technique_paths = <<>>

\* a page was fetched and parsed, and the constructor rejected its description
C22_Witness ==
    /\ pc = "scraped"
    /\ index_page.ok
    /\ index_page.description = "Too short"
    /\ fetched = <<FuzzPath>>
    /\ technique = NoTechnique

\* the fetches that failed
C22_WitnessFetchFailed ==
    /\ pc \in {"scraped", "listed"}
    /\ ~index_page.ok

-----------------------------------------------------------------------------
(* Properties of the API handlers *)

Opens == Cardinality({k \in DOMAIN log : log[k] = Event("open")})

OrchestratorRoutes ==
    {"ingest_technique", "get_radar_status", "get_radar_techniques",
     "update_technique_ring"}

\* C21: when a handler that constructed a RadarPipelineOrchestrator has
\* answered, every HTTP client its scraper opened has been closed.
C21_ClientsReleased ==
    last.op \in OrchestratorRoutes => Closes = Opens

\* C23: a missing entity and a failed ingestion are answered with a 4xx status
\* and a message; an internal failure is answered with status 500 and a detail
\* that does not contain the text of the internal exception; the client error a
\* handler raises for a ring outside the four is answered as a 400.
C23_ClientAndServerErrorsApart ==
    last.op \in {"ingest_technique", "update_technique_ring", "get_methodology",
                 "delete_methodology"} =>
        LET r == last.response
        IN  /\ r.cause \in {"not_found", "ingest_failed"} =>
                 r.status \in 400..499 /\ r.detail # ""
            /\ r.cause = "invalid_ring" => r.status \in 400..499
            /\ r.cause = "internal" =>
                 r.status = 500 /\ ~Contains(r.exception, r.detail)

-----------------------------------------------------------------------------
(* Two ingest_processed_data executions on one store, query by query *)

Workers == {1, 2}

\* the existence check of an item: get_by_name for a methodology and a practice,
\* get_by_practice and the search of the name for a rule
ItemExists(S, category, item) ==
    CASE category = "methodologies" -> MethodologyRepository_get_by_name(S, item.name)
      [] category = "practices"     -> PracticeRepository_get_by_name(S, item.name)
      [] category = "rules"         ->
            item.name \in RuleRepository_get_by_practice(S, item.practice_name)
      [] OTHER -> FALSE

\* the write of an item once its check has answered: the create query and the
\* counter, or the except branch
WriteItem(acc, category, item) ==
    CASE category = "methodologies" ->
            LET c == MethodologyRepository_create(acc.S, item)
            IN  IF c.raised THEN Failed(acc, "methodology", item.name)
                ELSE [acc EXCEPT !.S = c.S, !.results.methodologies_created = @ + 1]
      [] category = "practices" ->
            LET c == PracticeRepository_create(acc.S, item)
            IN  IF c.raised THEN Failed(acc, "practice", item.name)
                ELSE [acc EXCEPT !.S = c.S, !.results.practices_created = @ + 1]
      [] category = "rules" ->
            LET c == RuleRepository_create(acc.S, item)
            IN  IF c.raised THEN Failed(acc, "rule", item.title)
                ELSE [acc EXCEPT !.S = c.S, !.results.rules_created = @ + 1]
      [] category = "evidence" -> IngestEvidence(acc, item, FALSE)
      [] category = "connections" -> IngestConnection(acc, item, FALSE)

\* the batches of the race: the DevOps rule alone, and both rules
RaceTechniques == {TChaos, TFuzz}

AtCheck(k) == [k |-> k, phase |-> "check"]

InitRace ==
    /\ \E S \in {EmptyStore, SeededStore} : nodes = S.nodes /\ rels = S.rels
    /\ last = [op |-> "none"]
    /\ pc = [w \in Workers |-> AtCheck(1)]
    /\ processed_data \in {Processed[t] : t \in RaceTechniques}
    /\ ingest_results = [w \in Workers |-> NewResults]
    /\ technique_paths = <<>>
    /\ idx = 0
    /\ technique = NoTechnique
    /\ results = [success |-> TRUE]
    /\ fetched = <<>>
    /\ log = <<>>
    /\ calls = <<>>
    /\ index_page = NoPage
    /\ outages = 0

\* the existence check of the item a worker is at: one read query
CheckQuery ==
    \E w \in Workers :
        LET items == ItemsInOrder(processed_data)
            k == pc[w].k
        IN  /\ k <= Len(items)
            /\ pc[w].phase = "check"
            /\ items[k][1] \in {"methodologies", "practices", "rules"}
            /\ pc' = [pc EXCEPT ![w] =
                        IF ItemExists(Store, items[k][1],
                                      processed_data[items[k][1]][items[k][2]])
                        THEN AtCheck(k + 1)
                        ELSE [k |-> k, phase |-> "create"]]
            /\ last' = [op |-> "check", worker |-> w, item |-> items[k]]
            /\ UNCHANGED <<nodes, rels, technique_paths, idx, technique,
                           processed_data, ingest_results, results, fetched, log,
                           calls, index_page, outages>>

\* the write query of the item a worker is at
WriteQuery ==
    \E w \in Workers :
        LET items == ItemsInOrder(processed_data)
            k == pc[w].k
        IN  /\ k <= Len(items)
            /\ \/ pc[w].phase = "create"
               \/ items[k][1] \in {"evidence", "connections"}
            /\ \E a \in {WriteItem([S |-> Store, results |-> ingest_results[w]],
                                     items[k][1],
                                     processed_data[items[k][1]][items[k][2]])} :
                 /\ nodes' = a.S.nodes
                 /\ rels' = a.S.rels
                 /\ ingest_results' = [ingest_results EXCEPT ![w] = a.results]
            /\ pc' = [pc EXCEPT ![w] = AtCheck(k + 1)]
            /\ last' = [op |-> "write", worker |-> w, item |-> items[k]]
            /\ UNCHANGED <<technique_paths, idx, technique, processed_data,
                           results, fetched, log, calls, index_page, outages>>

NextRace ==
    \/ CheckQuery
    \/ WriteQuery

SpecRace == InitRace /\ [][NextRace]_vars

BatchNames(category) ==
    {processed_data[category][k].name : k \in 1..Len(processed_data[category])}

\* C28: with the queries of two executions of one batch interleaved, the store
\* holds at most one Methodology node and at most one Practice node of every
\* name of the batch.
C28_OnePerNameUnderRace ==
    /\ \A name \in BatchNames("methodologies") : Count(Store, "Methodology", name) <= 1
    /\ \A name \in BatchNames("practices") : Count(Store, "Practice", name) <= 1


=============================================================================
